---- MODULE Spec2Model ----
(***************************************************************************)
(* The price reconciliation (diff + upsert) stage of guitracker: one sync  *)
(* run of yahoo_finance/sync_db.py (CSV -> price rows -> plan -> audit log *)
(* -> upsert -> commit) against the prices_snapshots table, and the entry  *)
(* of twelvedata/sync.py.                                                  *)
(***************************************************************************)
EXTENDS Integers, Sequences, FiniteSets, TLC

\* Longest CSV file (number of data rows) the model feeds to a run.
MaxCsvRows == 2

----------------------------------------------------------------------------
\* Decimals.  A decimal.Decimal / a numeric literal is a coefficient and a
\* scale: [c |-> 150, s |-> 2] is 1.50.

RECURSIVE Pow10(_)
Pow10(n) == IF n = 0 THEN 1 ELSE 10 * Pow10(n - 1)

Dec(c, s) == [c |-> c, s |-> s]

\* Decimal.__eq__ / Decimal.__ne__ and SQL numeric comparison: by value.
DecEq(a, b) == a.c * Pow10(b.s) = b.c * Pow10(a.s)

\* str(Decimal): integer part, fractional digits, number of fractional digits.
DecStr(d) ==
    [int |-> d.c \div Pow10(d.s), frac |-> d.c % Pow10(d.s), digits |-> d.s]

\* The value of a literal without trailing fractional zeros.
RECURSIVE Normalize(_)
Normalize(d) ==
    IF d.s > 0 /\ d.c % 10 = 0
        THEN Normalize(Dec(d.c \div 10, d.s - 1))
        ELSE d

\* Decimal(str(x)) for a float64 x: repr(float) keeps at least one
\* fractional digit and no trailing zeros ("1.0", "1.5").
FloatToDecimal(v) ==
    LET n == Normalize(v) IN IF n.s = 0 THEN Dec(n.c * 10, 1) ELSE n

\* Decimal(str(x)) for an int64 x ("1").
IntToDecimal(v) == Dec(Normalize(v).c, 0)

----------------------------------------------------------------------------
\* Input domains.

Symbols == {"S1", "S2"}
Dates == {1, 2}
Currencies == {"ARS", "USD"}

\* close_ars cells of the CSV file: "1", "1.50" and the non-positive "0".
PriceCells == {Dec(1, 0), Dec(150, 2), Dec(0, 0)}

\* ticker cells of the CSV file: a symbol, or the empty cell, which pd.read_csv
\* reads as a missing value and which stays "" in the table of the model.
TickerCells == Symbols \cup {""}

CsvRows == [ticker : TickerCells, date : Dates, close_ars : PriceCells]

RECURSIVE SeqsUpTo(_, _)
SeqsUpTo(S, n) ==
    IF n = 0 THEN {<<>>}
    ELSE LET shorter == SeqsUpTo(S, n - 1) IN
         shorter \cup {Append(q, x) : q \in {p \in shorter : Len(p) = n - 1}, x \in S}

CsvFiles == SeqsUpTo(CsvRows, MaxCsvRows)

\* utils/assets.py Asset, as load_assets returns it (quote_currency checked).
Asset(asset_id, quote_currency) ==
    [asset_id |-> asset_id, account_id |-> "acct1", quote_currency |-> quote_currency]

\* by_ticker of the registries fed to a run: two tickers on two assets, two
\* tickers on one asset, a ticker of a USD asset, an unregistered ticker.
Registries ==
    { [S1 |-> Asset("AAA", "ARS"), S2 |-> Asset("BBB", "ARS")],
      [S1 |-> Asset("AAA", "ARS"), S2 |-> Asset("AAA", "ARS")],
      [S1 |-> Asset("AAA", "ARS"), S2 |-> Asset("BBB", "USD")],
      [S1 |-> Asset("AAA", "ARS")] }

\* Composite key of prices_snapshots: (as_of_date, asset_id, account_id).
AllKeys == Dates \X {"AAA", "BBB"} \X {"acct1"}

NoRow == [present |-> FALSE]

StoredRow(quote_currency, price, source, fetched_at) ==
    [present |-> TRUE, quote_currency |-> quote_currency, price |-> price,
     source |-> source, fetched_at |-> fetched_at]

\* Tables a run can find: rows written earlier (by a run of the other
\* provider) for date 1, holding 1.00 or 1.5 in either currency.
EarlierRows ==
    { StoredRow(q, p, "twelvedata", "earlier") :
        q \in Currencies, p \in {Dec(100, 2), Dec(15, 1)} }

InitialStores ==
    { t \in [AllKeys -> EarlierRows \cup {NoRow}] :
        \A k \in AllKeys : k[1] # 1 => t[k] = NoRow }

----------------------------------------------------------------------------
\* yahoo_finance/sync_db.py: the pure steps of main.

\* The checks of validate_and_load_csv that a file of CsvFiles can fail:
\* (df["close_ars"] <= 0).any().  Dates and prices of CsvFiles parse.
csv_is_valid(file) == \A i \in 1..Len(file) : file[i].close_ars.c > 0

\* pd.read_csv / pd.to_numeric give the column one dtype: float64 as soon as
\* one cell has a fractional part, int64 otherwise.
is_float_column(file) == \E i \in 1..Len(file) : file[i].close_ars.s > 0

\* validate_and_load_csv: the typed table, rows in file order, duplicates kept.
validate_and_load_csv(file) ==
    [i \in 1..Len(file) |->
        [ticker |-> file[i].ticker, date |-> file[i].date,
         close_ars |-> [float |-> is_float_column(file),
                        v |-> Normalize(file[i].close_ars)]]]

\* sorted(df["ticker"].dropna().unique().tolist()), as a set: dropna() leaves
\* the missing values out.
tickers_of(table) == {table[i].ticker : i \in 1..Len(table)} \ {""}

\* validate_csv_tickers_against_assets: raises SystemExit unless every ticker is
\* registered and quoted in ARS.
tickers_are_valid(tickers, registry) ==
    /\ tickers \subseteq DOMAIN registry
    /\ \A t \in tickers : registry[t].quote_currency = "ARS"

\* Decimal(str(r.close_ars)).
price_of(num) == IF num.float THEN FloatToDecimal(num.v) ELSE IntToDecimal(num.v)

\* build_price_rows: one PriceRow per table row, in table order.
build_price_rows(table, registry) ==
    [i \in 1..Len(table) |->
        [as_of_date |-> table[i].date,
         asset_id |-> registry[table[i].ticker].asset_id,
         account_id |-> registry[table[i].ticker].account_id,
         quote_currency |-> registry[table[i].ticker].quote_currency,
         price |-> price_of(table[i].close_ars),
         source |-> "yahoo_finance"]]

KeyOf(row) == <<row.as_of_date, row.asset_id, row.account_id>>

\* keys = [(r.as_of_date, r.asset_id, r.account_id) for r in desired]
keys_of(rows) == [i \in 1..Len(rows) |-> KeyOf(rows[i])]

\* A faulty variant of fetch_existing_prices: the query without its join, every
\* row of the table.
fetch_all_prices(table, key_list) ==
    [k \in {q \in AllKeys : table[q].present} |-> table[k].price]

\* fetch_existing_prices: the join of prices_snapshots with the wanted keys.
fetch_existing_prices(table, key_list) ==
    LET wanted == {key_list[i] : i \in 1..Len(key_list)}
        found == {k \in wanted : table[k].present}
    IN [k \in found |-> table[k].price]

EmptyPlan == [to_insert |-> <<>>, to_update |-> <<>>, unchanged |-> 0]

\* A faulty variant of diff_row: compares the prices' representations, so that
\* 1.0 and 1.00 differ.
diff_row_by_repr(plan, row, existing_prices) ==
    LET key == KeyOf(row) IN
    IF key \notin DOMAIN existing_prices
        THEN [plan EXCEPT !.to_insert = Append(@, row)]
    ELSE IF existing_prices[key] # row.price
        THEN [plan EXCEPT !.to_update = Append(@, <<row, existing_prices[key]>>)]
    ELSE [plan EXCEPT !.unchanged = @ + 1]

\* A faulty variant of diff_row: puts the row at the head of its list.
diff_row_prepending(plan, row, existing_prices) ==
    LET key == KeyOf(row) IN
    IF key \notin DOMAIN existing_prices
        THEN [plan EXCEPT !.to_insert = <<row>> \o @]
    ELSE IF ~DecEq(existing_prices[key], row.price)
        THEN [plan EXCEPT !.to_update = <<(<<row, existing_prices[key]>>)>> \o @]
    ELSE [plan EXCEPT !.unchanged = @ + 1]

\* The body of diff_prices' loop for one row.
diff_row(plan, row, existing_prices) ==
    LET key == KeyOf(row) IN
    IF key \notin DOMAIN existing_prices
        THEN [plan EXCEPT !.to_insert = Append(@, row)]
    ELSE IF ~DecEq(existing_prices[key], row.price)
        THEN [plan EXCEPT !.to_update = Append(@, <<row, existing_prices[key]>>)]
    ELSE [plan EXCEPT !.unchanged = @ + 1]

RECURSIVE diff_prices(_, _)
diff_prices(rows, existing_prices) ==
    IF rows = <<>> THEN EmptyPlan
    ELSE diff_row(diff_prices(SubSeq(rows, 1, Len(rows) - 1), existing_prices),
                  rows[Len(rows)], existing_prices)

\* A faulty variant of upsert_row: ON CONFLICT DO UPDATE without the WHERE.
upsert_row_unconditional(table, r, now) ==
    [table EXCEPT ![KeyOf(r)] = StoredRow(r.quote_currency, r.price, r.source, now)]

\* A faulty variant of upsert_row: ON CONFLICT DO NOTHING.
upsert_row_do_nothing(table, r, now) ==
    IF ~table[KeyOf(r)].present
        THEN [table EXCEPT ![KeyOf(r)] =
                StoredRow(r.quote_currency, r.price, r.source, now)]
    ELSE table

\* One statement of upsert_prices' executemany, run in a transaction whose
\* NOW() is now: INSERT ... ON CONFLICT DO UPDATE ... WHERE price or
\* quote_currency IS DISTINCT FROM the new one.
upsert_row(table, r, now) ==
    LET old == table[KeyOf(r)] IN
    IF ~old.present
        THEN [table EXCEPT ![KeyOf(r)] =
                StoredRow(r.quote_currency, r.price, r.source, now)]
    ELSE IF ~DecEq(old.price, r.price) \/ old.quote_currency # r.quote_currency
        THEN [table EXCEPT ![KeyOf(r)] =
                StoredRow(r.quote_currency, r.price, r.source, now)]
    ELSE table

\* upsert_prices after its first n statements.
RECURSIVE upsert_prices(_, _, _, _)
upsert_prices(table, rows, n, now) ==
    IF n = 0 THEN table
    ELSE upsert_row(upsert_prices(table, rows, n - 1, now), rows[n], now)

None == [none |-> TRUE]

str_date(d) == [iso |-> d]

insert_event(r) ==
    [ts |-> "this_run", run_id |-> "run1", action |-> "insert",
     as_of_date |-> str_date(r.as_of_date), asset_id |-> r.asset_id,
     account_id |-> r.account_id, quote_currency |-> r.quote_currency,
     old_price |-> None, new_price |-> DecStr(r.price), source |-> r.source]

\* A faulty variant of update_event: logs the new price as the old one.
update_event_without_old(u) ==
    [ts |-> "this_run", run_id |-> "run1", action |-> "update",
     as_of_date |-> str_date(u[1].as_of_date), asset_id |-> u[1].asset_id,
     account_id |-> u[1].account_id, quote_currency |-> u[1].quote_currency,
     old_price |-> DecStr(u[1].price), new_price |-> DecStr(u[1].price),
     source |-> u[1].source]

update_event(u) ==
    [ts |-> "this_run", run_id |-> "run1", action |-> "update",
     as_of_date |-> str_date(u[1].as_of_date), asset_id |-> u[1].asset_id,
     account_id |-> u[1].account_id, quote_currency |-> u[1].quote_currency,
     old_price |-> DecStr(u[2]), new_price |-> DecStr(u[1].price),
     source |-> u[1].source]

\* str() of the minimum of an empty column.
NaN == [nan |-> TRUE]

MinDate(table) ==
    IF table = <<>> THEN NaN
    ELSE str_date(CHOOSE d \in Dates :
            /\ \E i \in 1..Len(table) : table[i].date = d
            /\ \A i \in 1..Len(table) : d <= table[i].date)

MaxDate(table) ==
    IF table = <<>> THEN NaN
    ELSE str_date(CHOOSE d \in Dates :
            /\ \E i \in 1..Len(table) : table[i].date = d
            /\ \A i \in 1..Len(table) : d >= table[i].date)

summary_event(plan, table, existing_prices) ==
    [ts |-> "this_run", run_id |-> "run1", action |-> "summary",
     csv_rows |-> Len(table),
     existing_matched |-> Cardinality(DOMAIN existing_prices),
     inserted |-> Len(plan.to_insert), updated |-> Len(plan.to_update),
     unchanged |-> plan.unchanged,
     date_min |-> MinDate(table), date_max |-> MaxDate(table)]

\* The events list main builds before write_jsonl.
sync_events(plan, table, existing_prices) ==
    [i \in 1..Len(plan.to_insert) |-> insert_event(plan.to_insert[i])]
    \o [i \in 1..Len(plan.to_update) |-> update_event(plan.to_update[i])]
    \o <<summary_event(plan, table, existing_prices)>>

\* A log file left by an earlier sync that ran under the same RUN_ID.
EarlierLog ==
    <<[ts |-> "earlier", run_id |-> "run1", action |-> "summary",
       csv_rows |-> 0, existing_matched |-> 0, inserted |-> 0, updated |-> 0,
       unchanged |-> 0, date_min |-> NaN, date_max |-> NaN]>>

----------------------------------------------------------------------------
\* The state of one sync run.

VARIABLES
    variant,     \* which entry point runs: "yahoo_finance" or "twelvedata"
    csv,         \* the CSV file of the fetch stage, once main has read it
    by_ticker,   \* the registry by provider symbol, once main has loaded it
    store,       \* prices_snapshots as committed
    conn,        \* the open connection's transaction: its view of the table
    log,         \* the run's JSON-lines log file
    pc,          \* position in main
    df,          \* the validated table
    desired,     \* the PriceRows
    existing,    \* existing prices for the wanted keys
    plan,        \* (to_insert, to_update, unchanged)
    executed,    \* statements of executemany executed so far
    raised_by,   \* the call whose exception is propagating or was handled
    committed,   \* whether the run's transaction committed
    exit_code,   \* the process's exit status, None while it runs
    store0,      \* prices_snapshots when the run started
    log0         \* the log file when the run started

sync_vars == <<variant, csv, by_ticker, store, conn, log, pc, df, desired,
               existing, plan, executed, raised_by, committed, exit_code,
               store0, log0>>

\* The state of the other programs: reading the environment, one call of
\* retry_with_backoff, one run of a fetch entry point, one CSV load.
VARIABLES
    environ,       \* os.environ: variable name -> raw value
    required_envs, \* the required_envs argument of get_envs
    envs,          \* what get_envs (or env_bool / env_date) gave
    jitter,        \* the jitter argument of the retry loop
    attempt,       \* the retry loop's attempt number
    fn_calls,      \* what each call of fn met, in order
    slept,         \* the waits slept so far
    rpc,           \* position in the retry loop
    retry_result,  \* the retry loop's return value
    program,       \* which entry point runs
    fpc,           \* position in the fetch entry point's main
    td_assets,     \* the registry's assets the run iterates over
    asset,         \* index of the asset the loop is at
    cache_before,  \* the asset's cache file when the loop looked at it
    cache_file,    \* the asset's cache file now
    all_rows,      \* the tables collected so far
    processed,     \* what became of each asset the loop is done with
    out_file,      \* the output CSV artifact
    fexit,         \* the fetch process's exit status
    params,        \* the params of the provider request for the asset
    cache_path,    \* the path of the asset's cache file
    cache_dir,     \* the cache files seen or written so far, by symbol
    raw_csv,       \* the CSV file handed to a loader
    loader,        \* which validate_and_load_csv loads it
    loaded,        \* what the loader gave
    called,        \* the pure function under call
    args,          \* its arguments
    returned       \* what it returned or raised

env_vars == <<environ, required_envs, envs>>

retry_vars == <<jitter, attempt, fn_calls, slept, rpc, retry_result>>

fetch_vars == <<program, fpc, td_assets, asset, cache_before, cache_file,
                all_rows, processed, out_file, fexit, params, cache_path,
                cache_dir>>

csv_vars == <<raw_csv, loader, loaded>>

call_vars == <<called, args, returned>>

vars == <<sync_vars, env_vars, retry_vars, fetch_vars, csv_vars, call_vars>>

inputs == <<variant, csv, by_ticker, store0, log0>>

NoConn == [open |-> FALSE]

Conn(table) == [open |-> TRUE, rows |-> table]

\* A path with no file at it.
NoFile == [exists |-> FALSE]

\* The other programs are not running during a sync run.
EnvIdle == environ = <<>> /\ required_envs = {} /\ envs = None

RetryIdle ==
    /\ jitter = FALSE /\ attempt = 0 /\ fn_calls = <<>> /\ slept = <<>>
    /\ rpc = "idle" /\ retry_result = None

FetchIdle ==
    /\ program = "none" /\ fpc = "idle" /\ td_assets = <<>> /\ asset = 0
    /\ cache_before = NoFile /\ cache_file = NoFile /\ all_rows = <<>>
    /\ processed = <<>> /\ out_file = NoFile /\ fexit = None
    /\ params = <<>> /\ cache_path = <<>> /\ cache_dir = <<>>

CsvIdle == raw_csv = <<>> /\ loader = "none" /\ loaded = None

\* No pure function is under call.
CallIdle == called = "none" /\ args = <<>> /\ returned = None

\* No sync run is going on while another program is looked at.
SyncIdle ==
    /\ variant = "none" /\ csv = <<>> /\ by_ticker = <<>> /\ store = <<>>
    /\ log = <<>> /\ conn = NoConn /\ pc = "idle" /\ df = <<>> /\ desired = <<>>
    /\ existing = <<>> /\ plan = EmptyPlan /\ executed = 0 /\ raised_by = "none"
    /\ committed = FALSE /\ exit_code = None /\ store0 = <<>> /\ log0 = <<>>

Init ==
    /\ EnvIdle /\ RetryIdle /\ FetchIdle /\ CsvIdle /\ CallIdle
    /\ variant \in {"yahoo_finance", "twelvedata"}
    /\ csv = <<>>
    /\ by_ticker = <<>>
    /\ store \in InitialStores
    /\ log \in {<<>>, EarlierLog}
    /\ conn = NoConn
    /\ pc = "start"
    /\ df = <<>>
    /\ desired = <<>>
    /\ existing = <<>>
    /\ plan = EmptyPlan
    /\ executed = 0
    /\ raised_by = "none"
    /\ committed = FALSE
    /\ exit_code = None
    /\ store0 = store
    /\ log0 = log

\* twelvedata/sync.py main: get_envs returns an Envs that has no database_url
\* attribute (or raises), so line 32 raises AttributeError outside the try.
TwelvedataMain ==
    /\ pc = "start" /\ variant = "twelvedata"
    /\ pc' = "crashed"
    /\ exit_code' = 1
    /\ UNCHANGED <<env_vars, retry_vars, fetch_vars, csv_vars, call_vars>>
    /\ UNCHANGED <<inputs, store, conn, log, df, desired, existing, plan,
                   executed, raised_by, committed>>

\* main: df = validate_and_load_csv(CSV_PATH), the file passing its checks.
LoadCsv ==
    /\ pc = "start" /\ variant = "yahoo_finance"
    /\ \E file \in CsvFiles :
          /\ csv_is_valid(file)
          /\ csv' = file
          /\ df' = validate_and_load_csv(file)
    /\ pc' = "csv_ok"
    /\ UNCHANGED <<env_vars, retry_vars, fetch_vars, csv_vars, call_vars>>
    /\ UNCHANGED <<variant, by_ticker, store0, log0, store, conn, log, desired,
                   existing, plan, executed, raised_by, committed, exit_code>>

\* validate_and_load_csv raises SystemExit.
LoadCsvAbort ==
    /\ pc = "start" /\ variant = "yahoo_finance"
    /\ \E file \in CsvFiles :
          /\ ~csv_is_valid(file)
          /\ csv' = file
    /\ pc' = "aborted"
    /\ exit_code' = 1
    /\ UNCHANGED <<env_vars, retry_vars, fetch_vars, csv_vars, call_vars>>
    /\ UNCHANGED <<variant, by_ticker, store0, log0, store, conn, log, df,
                   desired, existing, plan, executed, raised_by, committed>>

\* main: the registry is loaded, validate_csv_tickers_against_assets passes,
\* desired and keys are built.
BuildRows ==
    /\ pc = "csv_ok"
    /\ \E registry \in Registries :
          /\ tickers_are_valid(tickers_of(df), registry)
          /\ \A i \in 1..Len(df) : df[i].ticker \in DOMAIN registry
          /\ by_ticker' = registry
          /\ desired' = build_price_rows(df, registry)
    /\ pc' = "built"
    /\ UNCHANGED <<env_vars, retry_vars, fetch_vars, csv_vars, call_vars>>
    /\ UNCHANGED <<variant, csv, store0, log0, store, conn, log, df, existing,
                   plan, executed, raised_by, committed, exit_code>>

\* validate_csv_tickers_against_assets passes and build_price_rows raises
\* KeyError at by_ticker[ticker], outside the try of main: a row's ticker is
\* a missing value, which the list of tickers does not hold.
BuildRowsCrash ==
    /\ pc = "csv_ok"
    /\ \E registry \in Registries :
          /\ tickers_are_valid(tickers_of(df), registry)
          /\ \E i \in 1..Len(df) : df[i].ticker \notin DOMAIN registry
          /\ by_ticker' = registry
    /\ raised_by' = "build_price_rows"
    /\ pc' = "crashed"
    /\ exit_code' = 1
    /\ UNCHANGED <<env_vars, retry_vars, fetch_vars, csv_vars, call_vars>>
    /\ UNCHANGED <<variant, csv, store0, log0, store, conn, log, df, desired,
                   existing, plan, executed, committed>>

\* validate_csv_tickers_against_assets raises SystemExit.
TickersAbort ==
    /\ pc = "csv_ok"
    /\ \E registry \in Registries :
          /\ ~tickers_are_valid(tickers_of(df), registry)
          /\ by_ticker' = registry
    /\ pc' = "aborted"
    /\ exit_code' = 1
    /\ UNCHANGED <<env_vars, retry_vars, fetch_vars, csv_vars, call_vars>>
    /\ UNCHANGED <<variant, csv, store0, log0, store, conn, log, df, desired,
                   existing, plan, executed, raised_by, committed>>

\* main: os.getenv("DATABASE_URL") is empty, SystemExit.
DbUrlAbort ==
    /\ pc = "built"
    /\ pc' = "aborted"
    /\ exit_code' = 1
    /\ UNCHANGED <<env_vars, retry_vars, fetch_vars, csv_vars, call_vars>>
    /\ UNCHANGED <<inputs, store, conn, log, df, desired, existing, plan,
                   executed, raised_by, committed>>

\* psycopg.connect(db_url): a connection whose transaction sees the table.
Connect ==
    /\ pc = "built"
    /\ conn' = Conn(store)
    /\ pc' = "connected"
    /\ UNCHANGED <<env_vars, retry_vars, fetch_vars, csv_vars, call_vars>>
    /\ UNCHANGED <<inputs, store, log, df, desired, existing, plan, executed,
                   raised_by, committed, exit_code>>

\* psycopg.connect raises.
ConnectFail ==
    /\ pc = "built"
    /\ raised_by' = "connect"
    /\ pc' = "raised"
    /\ UNCHANGED <<env_vars, retry_vars, fetch_vars, csv_vars, call_vars>>
    /\ UNCHANGED <<inputs, store, conn, log, df, desired, existing, plan,
                   executed, committed, exit_code>>

\* existing = fetch_existing_prices(conn, keys)
FetchExisting ==
    /\ pc = "connected"
    /\ existing' = fetch_existing_prices(conn.rows, keys_of(desired))
    /\ pc' = "read"
    /\ UNCHANGED <<env_vars, retry_vars, fetch_vars, csv_vars, call_vars>>
    /\ UNCHANGED <<inputs, store, conn, log, df, desired, plan, executed,
                   raised_by, committed, exit_code>>

\* fetch_existing_prices raises: its query fails (no query for no keys).
FetchExistingFail ==
    /\ pc = "connected"
    /\ desired # <<>>
    /\ raised_by' = "read"
    /\ pc' = "raised"
    /\ UNCHANGED <<env_vars, retry_vars, fetch_vars, csv_vars, call_vars>>
    /\ UNCHANGED <<inputs, store, conn, log, df, desired, existing, plan,
                   executed, committed, exit_code>>

\* to_insert, to_update, unchanged = diff_prices(desired, existing)
Diff ==
    /\ pc = "read"
    /\ plan' = diff_prices(desired, existing)
    /\ pc' = "planned"
    /\ UNCHANGED <<env_vars, retry_vars, fetch_vars, csv_vars, call_vars>>
    /\ UNCHANGED <<inputs, store, conn, log, df, desired, existing, executed,
                   raised_by, committed, exit_code>>

\* A faulty variant of write_jsonl: the file is opened for writing, not for
\* appending, so the events replace its content.
write_jsonl_truncating(file, events) == events

\* write_jsonl: the events appended to the file.
write_jsonl(file, events) == file \o events

\* main builds the events and write_jsonl appends them all.
WriteLog ==
    /\ pc = "planned"
    /\ log' = write_jsonl(log, sync_events(plan, df, existing))
    /\ pc' = "logged"
    /\ UNCHANGED <<env_vars, retry_vars, fetch_vars, csv_vars, call_vars>>
    /\ UNCHANGED <<inputs, store, conn, df, desired, existing, plan, executed,
                   raised_by, committed, exit_code>>

\* A faulty variant of WriteLogFail: the error is swallowed and main goes on.
WriteLogFailSwallowed ==
    /\ pc = "planned"
    /\ \E n \in 0..Len(sync_events(plan, df, existing)) - 1 :
          log' = write_jsonl(log, SubSeq(sync_events(plan, df, existing), 1, n))
    /\ raised_by' = "log"
    /\ pc' = "logged"
    /\ UNCHANGED <<env_vars, retry_vars, fetch_vars, csv_vars, call_vars>>
    /\ UNCHANGED <<inputs, store, conn, df, desired, existing, plan, executed,
                   committed, exit_code>>

\* write_jsonl raises on opening the file or after writing some of the events.
WriteLogFail ==
    /\ pc = "planned"
    /\ \E n \in 0..Len(sync_events(plan, df, existing)) - 1 :
          log' = write_jsonl(log, SubSeq(sync_events(plan, df, existing), 1, n))
    /\ raised_by' = "log"
    /\ pc' = "raised"
    /\ UNCHANGED <<env_vars, retry_vars, fetch_vars, csv_vars, call_vars>>
    /\ UNCHANGED <<inputs, store, conn, df, desired, existing, plan, executed,
                   committed, exit_code>>

\* upsert_prices(conn, desired): every statement of executemany succeeds.
Upsert ==
    /\ pc = "logged"
    /\ conn' = Conn(upsert_prices(conn.rows, desired, Len(desired), "this_run"))
    /\ executed' = Len(desired)
    /\ pc' = "upserted"
    /\ UNCHANGED <<env_vars, retry_vars, fetch_vars, csv_vars, call_vars>>
    /\ UNCHANGED <<inputs, store, log, df, desired, existing, plan, raised_by,
                   committed, exit_code>>

\* upsert_prices raises at statement n + 1, the first n having been executed.
UpsertFail ==
    /\ pc = "logged"
    /\ \E n \in 0..Len(desired) - 1 :
          /\ conn' = Conn(upsert_prices(conn.rows, desired, n, "this_run"))
          /\ executed' = n
    /\ raised_by' = "upsert"
    /\ pc' = "raised"
    /\ UNCHANGED <<env_vars, retry_vars, fetch_vars, csv_vars, call_vars>>
    /\ UNCHANGED <<inputs, store, log, df, desired, existing, plan, committed,
                   exit_code>>

\* conn.commit(): the transaction's writes become the table, all at once.
Commit ==
    /\ pc = "upserted"
    /\ store' = conn.rows
    /\ committed' = TRUE
    /\ pc' = "committed"
    /\ UNCHANGED <<env_vars, retry_vars, fetch_vars, csv_vars, call_vars>>
    /\ UNCHANGED <<inputs, conn, log, df, desired, existing, plan, executed,
                   raised_by, exit_code>>

\* conn.commit() raises and nothing is committed.
CommitFail ==
    /\ pc = "upserted"
    /\ raised_by' = "commit"
    /\ pc' = "raised"
    /\ UNCHANGED <<env_vars, retry_vars, fetch_vars, csv_vars, call_vars>>
    /\ UNCHANGED <<inputs, store, conn, log, df, desired, existing, plan,
                   executed, committed, exit_code>>

\* The with block ends normally: the connection closes and main returns.
Finish ==
    /\ pc = "committed"
    /\ conn' = NoConn
    /\ exit_code' = 0
    /\ pc' = "done"
    /\ UNCHANGED <<env_vars, retry_vars, fetch_vars, csv_vars, call_vars>>
    /\ UNCHANGED <<inputs, store, log, df, desired, existing, plan, executed,
                   raised_by, committed>>

\* A faulty variant of HandleException: the connection commits on the way out.
HandleExceptionCommitting ==
    /\ pc = "raised"
    /\ store' = IF conn.open THEN conn.rows ELSE store
    /\ conn' = NoConn
    /\ exit_code' = 1
    /\ pc' = "failed"
    /\ UNCHANGED <<env_vars, retry_vars, fetch_vars, csv_vars, call_vars>>
    /\ UNCHANGED <<inputs, log, df, desired, existing, plan, executed,
                   raised_by, committed>>

\* An exception leaves the with block (the connection rolls back and closes)
\* and reaches except Exception: sys.exit(1).
HandleException ==
    /\ pc = "raised"
    /\ conn' = NoConn
    /\ exit_code' = 1
    /\ pc' = "failed"
    /\ UNCHANGED <<env_vars, retry_vars, fetch_vars, csv_vars, call_vars>>
    /\ UNCHANGED <<inputs, store, log, df, desired, existing, plan, executed,
                   raised_by, committed>>

Running ==
    {"start", "csv_ok", "built", "connected", "read", "planned", "logged",
     "upserted", "committed", "raised"}

\* The process is killed: the server drops the connection's open transaction;
\* a kill inside write_jsonl leaves the events written so far.
Kill ==
    /\ pc \in Running
    /\ conn' = NoConn
    /\ IF pc = "planned"
         THEN \E n \in 0..Len(sync_events(plan, df, existing)) - 1 :
                 log' = write_jsonl(log, SubSeq(sync_events(plan, df, existing), 1, n))
         ELSE log' = log
    /\ exit_code' = 137
    /\ pc' = "killed"
    /\ UNCHANGED <<env_vars, retry_vars, fetch_vars, csv_vars, call_vars>>
    /\ UNCHANGED <<inputs, store, df, desired, existing, plan, executed,
                   raised_by, committed>>

Next ==
    \/ TwelvedataMain
    \/ LoadCsv
    \/ LoadCsvAbort
    \/ BuildRows
    \/ BuildRowsCrash
    \/ TickersAbort
    \/ DbUrlAbort
    \/ Connect
    \/ ConnectFail
    \/ FetchExisting
    \/ FetchExistingFail
    \/ Diff
    \/ WriteLog
    \/ WriteLogFail
    \/ Upsert
    \/ UpsertFail
    \/ Commit
    \/ CommitFail
    \/ Finish
    \/ HandleException
    \/ Kill

Spec == Init /\ [][Next]_vars

----------------------------------------------------------------------------
\* utils/envs.py: the environment, and yahoo_finance/fetch_tickers.py's own
\* env_bool / env_date.

\* The keys of _ENV_SPECS.
EnvSpecNames == {"FORCE_REFRESH", "START_DATE", "END_DATE", "TWELVEDATA_API_KEY"}

\* os.getenv(name): None, or the variable's text.
Unset == [set |-> FALSE]

Raw(text) == [set |-> TRUE, text |-> text]

\* str.strip() on the texts of the model.
strip(text) == IF text = " " THEN "" ELSE text

\* raw is None or raw.strip() == ""
is_blank(raw) == ~raw.set \/ strip(raw.text) = ""

\* What a parser raises on a text it cannot read.
ParseError == [error |-> "ValueError"]

Bool(b) == [bool |-> b]

Date(day) == [date |-> day]

Str(text) == [str |-> text]

\* _parse_bool: strip().lower() looked up in the two tuples.
parse_bool(text) ==
    IF strip(text) \in {"1", "true", "yes", "on"} THEN Bool(TRUE)
    ELSE IF strip(text) \in {"0", "false", "no", "off"} THEN Bool(FALSE)
    ELSE ParseError

\* _parse_date: pd.to_datetime(val, format="%Y-%m-%d").date(), a date being
\* its day of January 2024.
parse_date(text) ==
    IF text = "2024-01-01" THEN Date(1)
    ELSE IF text = "2024-01-31" THEN Date(31)
    ELSE ParseError

\* _ENV_SPECS[name]["default"]
spec_default(name) == IF name = "FORCE_REFRESH" THEN Bool(FALSE) ELSE None

\* The try block of get_envs: the value parsed by _ENV_SPECS[name]["type"].
parse_env(name, text) ==
    IF name = "FORCE_REFRESH" THEN parse_bool(text)
    ELSE IF name \in {"START_DATE", "END_DATE"} THEN parse_date(text)
    ELSE Str(text)

Raised(exception) == [raised |-> exception]

\* _validate_date_bounds does not raise.
date_bounds_ok(start_date, end_date) ==
    /\ (start_date = None) <=> (end_date = None)
    /\ (start_date # None /\ end_date # None) => start_date.date <= end_date.date

\* get_envs(required_envs=required) in the environment env: the Envs it
\* returns, or the exception it raises.  Its loop visits _ENV_SPECS only.
get_envs(env, required) ==
    LET missing == {n \in EnvSpecNames : is_blank(env[n]) /\ n \in required}
        value(n) == IF is_blank(env[n]) THEN spec_default(n)
                    ELSE parse_env(n, env[n].text)
        invalid == {n \in EnvSpecNames : value(n) = ParseError}
    IN IF missing # {} \/ invalid # {} THEN Raised("ValueError")
       ELSE IF ~date_bounds_ok(value("START_DATE"), value("END_DATE"))
           THEN Raised("ValueError")
       ELSE [force_refresh |-> value("FORCE_REFRESH").bool,
             start_date |-> value("START_DATE"),
             end_date |-> value("END_DATE"),
             twelvedata_api_key |-> value("TWELVEDATA_API_KEY")]

\* yahoo_finance/fetch_tickers.py env_bool: no strip, default for None only.
env_bool(raw) ==
    IF ~raw.set THEN Bool(FALSE)
    ELSE IF raw.text \in {"1", "true", "yes", "on"} THEN Bool(TRUE)
    ELSE IF raw.text \in {"0", "false", "no", "off"} THEN Bool(FALSE)
    ELSE ParseError

\* yahoo_finance/fetch_tickers.py env_date: None for None and for "".
env_date(raw) ==
    IF ~raw.set \/ raw.text = "" THEN None ELSE parse_date(raw.text)

\* yahoo_finance/fetch_tickers.py main, lines 119-121: the three values, or
\* the ValueError of one of them.  There is no check of the bounds.
yahoo_envs(env) ==
    IF ParseError \in {env_bool(env["FORCE_REFRESH"]), env_date(env["START_DATE"]),
                       env_date(env["END_DATE"])}
        THEN Raised("ValueError")
    ELSE [force_refresh |-> env_bool(env["FORCE_REFRESH"]).bool,
          start_date |-> env_date(env["START_DATE"]),
          end_date |-> env_date(env["END_DATE"]),
          twelvedata_api_key |-> None]

\* Environments: every variable unset, blank, valid or unreadable.
Environs ==
    [FORCE_REFRESH : {Unset, Raw("true"), Raw("maybe")},
     START_DATE : {Unset, Raw(""), Raw("2024-01-31")},
     END_DATE : {Unset, Raw("2024-01-01"), Raw("2024-01-31")},
     TWELVEDATA_API_KEY : {Unset, Raw(" "), Raw("key")},
     DATABASE_URL : {Unset, Raw(""), Raw("postgres://db")},
     RUN_ID : {Unset, Raw("run1")}]

\* The required_envs of the calls: the default, the fetch stage's, the sync
\* stage's.
RequiredSets == {{}, {"TWELVEDATA_API_KEY"}, {"DATABASE_URL", "RUN_ID"}}

\* One call of get_envs.
EnvsInit ==
    /\ environ \in Environs
    /\ required_envs \in RequiredSets
    /\ envs = None
    /\ RetryIdle /\ FetchIdle /\ CsvIdle /\ CallIdle
    /\ SyncIdle

\* get_envs returns an Envs.
GetEnvsReturns ==
    /\ program = "none" /\ envs = None
    /\ get_envs(environ, required_envs) # Raised("ValueError")
    /\ envs' = get_envs(environ, required_envs)
    /\ UNCHANGED <<environ, required_envs, sync_vars, retry_vars, fetch_vars, csv_vars, call_vars>>

\* get_envs raises ValueError.
GetEnvsRaises ==
    /\ program = "none" /\ envs = None
    /\ get_envs(environ, required_envs) = Raised("ValueError")
    /\ envs' = Raised("ValueError")
    /\ UNCHANGED <<environ, required_envs, sync_vars, retry_vars, fetch_vars, csv_vars, call_vars>>

EnvsNext == GetEnvsReturns \/ GetEnvsRaises

EnvsSpec == EnvsInit /\ [][EnvsNext]_vars

----------------------------------------------------------------------------
\* utils/retry.py: retry_with_backoff.  twelve_data/fetch_tickers.py (lines
\* 60-76) and yahoo_finance/fetch_tickers.py (lines 78-96) inline the same loop,
\* always with the jitter.

MAX_RETRIES == 4

\* What one provider request meets: the HTTP or library call raises, the
\* provider answers {"status": "error", ...}, it answers without values (an
\* empty frame for yfinance), it answers with values of which none has a
\* datetime and a close above 0, it answers with values.  yf.download has no
\* error payload, and normalize keeps every row of a frame.
ProviderAnswers(prog) ==
    IF prog = "yahoo_finance/fetch_tickers.py"
        THEN {"exception", "no_values", "values"}
    ELSE {"exception", "error_payload", "no_values", "unusable_values",
          "values"}

\* fn raises: requests.get / r.json() / yf.download raise, or fetch raises
\* RuntimeError on data.get("status") == "error".
fn_raises(answer) == answer \in {"exception", "error_payload"}

\* What fn returns: the payload (the frame) the provider answered.
Returned(answer) == [payload |-> answer]

RECURSIVE Pow2(_)
Pow2(n) == IF n = 0 THEN 1 ELSE 2 * Pow2(n - 1)

\* wait = 2 ** (attempt - 1), plus random.uniform(0.0, 1.0) with the jitter.
backoff(n, with_jitter) == [seconds |-> Pow2(n - 1), jitter |-> with_jitter]

\* One call of retry_with_backoff(fn, ...), for either value of jitter.
RetryInit ==
    /\ jitter \in BOOLEAN
    /\ attempt = 1 /\ fn_calls = <<>> /\ slept = <<>>
    /\ rpc = "call" /\ retry_result = None
    /\ EnvIdle /\ FetchIdle /\ CsvIdle /\ CallIdle
    /\ SyncIdle

\* try: return fn() -- fn returns.
FnReturns ==
    /\ rpc = "call"
    /\ \E answer \in ProviderAnswers(program) :
          /\ ~fn_raises(answer)
          /\ fn_calls' = Append(fn_calls, answer)
          /\ retry_result' = Returned(answer)
    /\ rpc' = "returned"
    /\ UNCHANGED <<jitter, attempt, slept>>
    /\ UNCHANGED <<sync_vars, env_vars, fetch_vars, csv_vars, call_vars>>

\* A faulty variant of FnRaises: the loop never runs out of attempts.
FnRaisesForever ==
    /\ rpc = "call"
    /\ \E answer \in ProviderAnswers(program) :
          /\ fn_raises(answer)
          /\ fn_calls' = Append(fn_calls, answer)
    /\ slept' = Append(slept, backoff(attempt, jitter))
    /\ attempt' = attempt + 1
    /\ rpc' = "call"
    /\ UNCHANGED <<jitter, retry_result>>
    /\ UNCHANGED <<sync_vars, env_vars, fetch_vars, csv_vars, call_vars>>

\* A faulty variant of FnRaises: no sleep after the last attempt.
FnRaisesWithoutLastSleep ==
    /\ rpc = "call"
    /\ \E answer \in ProviderAnswers(program) :
          /\ fn_raises(answer)
          /\ fn_calls' = Append(fn_calls, answer)
    /\ slept' = IF attempt < MAX_RETRIES
                   THEN Append(slept, backoff(attempt, jitter))
                 ELSE slept
    /\ attempt' = IF attempt < MAX_RETRIES THEN attempt + 1 ELSE attempt
    /\ rpc' = IF attempt < MAX_RETRIES THEN "call" ELSE "exhausted"
    /\ UNCHANGED <<jitter, retry_result>>
    /\ UNCHANGED <<sync_vars, env_vars, fetch_vars, csv_vars, call_vars>>

\* except Exception: fn raised; the loop sleeps and goes to the next attempt,
\* or leaves the for statement after attempt MAX_RETRIES.
FnRaises ==
    /\ rpc = "call"
    /\ \E answer \in ProviderAnswers(program) :
          /\ fn_raises(answer)
          /\ fn_calls' = Append(fn_calls, answer)
    /\ slept' = Append(slept, backoff(attempt, jitter))
    /\ attempt' = IF attempt < MAX_RETRIES THEN attempt + 1 ELSE attempt
    /\ rpc' = IF attempt < MAX_RETRIES THEN "call" ELSE "exhausted"
    /\ UNCHANGED <<jitter, retry_result>>
    /\ UNCHANGED <<sync_vars, env_vars, fetch_vars, csv_vars, call_vars>>

\* return None after the loop ({} and pd.DataFrame() in the inlined loops).
GiveUp ==
    /\ rpc = "exhausted"
    /\ retry_result' = None
    /\ rpc' = "returned"
    /\ UNCHANGED <<jitter, attempt, fn_calls, slept>>
    /\ UNCHANGED <<sync_vars, env_vars, fetch_vars, csv_vars, call_vars>>

RetryNext == FnReturns \/ FnRaises \/ GiveUp

RetrySpec == RetryInit /\ [][RetryNext]_vars

\* fn and time.sleep return: the loop takes its next step.
FairRetrySpec == RetrySpec /\ WF_vars(RetryNext)

----------------------------------------------------------------------------
\* Cache paths: utils/cache.py generate_cache_path as twelve_data/fetch.py and
\* twelve_data/fetch_tickers.py call it, and generate_cache_key of
\* yahoo_finance/fetch_tickers.py.  A text is a sequence of pieces: a word
\* holding none of "/", ".", "_", "-", or one of these four characters.

\* _safe_token: s.replace("/", "_").replace(".", "_")
safe_token(text) ==
    [i \in 1..Len(text) |-> IF text[i] \in {"/", "."} THEN "_" ELSE text[i]]

\* ticker.replace(".", "_") of generate_cache_key.
safe_ticker(text) ==
    [i \in 1..Len(text) |-> IF text[i] = "." THEN "_" ELSE text[i]]

\* date.isoformat() and date.strftime("%Y-%m-%d") of a day of January 2024.
isoformat(d) == <<"2024", "-", "01", "-", IF d.date = 1 THEN "01" ELSE "31">>

\* norm of generate_cache_path: "none" for None, str(v) otherwise.  A value
\* of parts is None or Str(text).
norm(v) == IF v = None THEN <<"none">> ELSE v.str

\* INTERVAL and OUTPUT_SIZE of the twelve_data programs, INTERVAL and PERIOD of
\* the yahoo one.
INTERVAL(prog) ==
    IF prog = "yahoo_finance/fetch_tickers.py" THEN <<"1d">> ELSE <<"1day">>

OUTPUT_SIZE == <<"30">>

PERIOD == <<"1mo">>

\* The keys a parts mapping can have, as sorted(parts.keys()) orders them, and
\* their texts.
PartKeys == <<"end", "exchange", "interval", "output_size", "start">>

key_text(k) == IF k = "output_size" THEN <<"output", "_", "size">> ELSE <<k>>

\* `if start_date and end_date` of _get_cached_data, _request_time_series,
\* generate_cache_key and download_with_retries.
both_dates(start_date, end_date) == start_date # None /\ end_date # None

\* generate_cache_path(CACHE_DIR, prefix=prefix, parts=parts, ext="csv"), below
\* CACHE_DIR.
RECURSIVE join_segments(_, _)
join_segments(keys, cache_parts) ==
    IF keys = <<>> THEN <<>>
    ELSE <<"_", "_">> \o safe_token(key_text(Head(keys))) \o <<"-">>
           \o safe_token(norm(cache_parts[Head(keys)]))
           \o join_segments(Tail(keys), cache_parts)

generate_cache_path(prefix, cache_parts) ==
    LET present(k) == k \in DOMAIN cache_parts
    IN safe_token(prefix) \o join_segments(SelectSeq(PartKeys, present), cache_parts)
         \o <<".", "csv">>

\* The parts of _get_cached_data (exchange or "none") and of
\* twelve_data/fetch_tickers.py main (exchange as it is).
twelve_data_parts(prog, exchange, start_date, end_date) ==
    [exchange |-> IF prog = "twelve_data/fetch.py" /\ exchange = None
                     THEN Str(<<"none">>) ELSE exchange,
     interval |-> Str(INTERVAL(prog))]
    @@ IF both_dates(start_date, end_date)
         THEN [start |-> Str(isoformat(start_date)),
               end |-> Str(isoformat(end_date))]
       ELSE [output_size |-> Str(OUTPUT_SIZE)]

\* CACHE_DIR / f"{generate_cache_key(ticker, start_date, end_date)}.csv"
generate_cache_key(ticker, start_date, end_date) ==
    safe_ticker(ticker) \o <<"_", "_", "interval", "-">>
      \o INTERVAL("yahoo_finance/fetch_tickers.py")
      \o (IF both_dates(start_date, end_date)
            THEN <<"_", "_", "start", "-">> \o isoformat(start_date)
                   \o <<"_", "_", "end", "-">> \o isoformat(end_date)
          ELSE <<"_", "_", "period", "-">> \o PERIOD)
      \o <<".", "csv">>

\* The cache path a fetch entry point builds for one asset.
cache_path_of(prog, symbol, exchange, start_date, end_date) ==
    IF prog = "yahoo_finance/fetch_tickers.py"
        THEN generate_cache_key(symbol, start_date, end_date)
    ELSE generate_cache_path(symbol,
            twelve_data_parts(prog, exchange, start_date, end_date))

\* The queries of the calls looked at: symbols that differ in one character,
\* no exchange or one, the lookback or a date range.
CacheSymbols ==
    {<<"BRK", ".", "B">>, <<"BRK", "/", "B">>, <<"BRK", "_", "B">>, <<"S1">>}

CacheExchanges(prog) ==
    IF prog = "twelve_data/fetch.py"
        THEN {None, Str(<<"none">>), Str(<<"NYSE">>)}
    ELSE IF prog = "twelve_data/fetch_tickers.py"
        THEN {Str(<<"none">>), Str(<<"NYSE">>)}
    ELSE {None}

CacheWindows ==
    {<<None, None>>, <<Date(1), Date(31)>>, <<Date(31), Date(31)>>}

CacheQueries(prog) ==
    [symbol : CacheSymbols, exchange : CacheExchanges(prog), window : CacheWindows]

\* Two calls of an entry point's cache path function.
CacheInit ==
    /\ called \in {"twelve_data/fetch.py", "twelve_data/fetch_tickers.py",
                   "yahoo_finance/fetch_tickers.py"}
    /\ args \in CacheQueries(called) \X CacheQueries(called)
    /\ returned = None
    /\ EnvIdle /\ RetryIdle /\ FetchIdle /\ CsvIdle /\ SyncIdle

\* Both calls return their path.
CachePaths ==
    /\ called # "none" /\ returned = None
    /\ returned' =
          [paths |-> [i \in 1..2 |->
              cache_path_of(called, args[i].symbol, args[i].exchange,
                            args[i].window[1], args[i].window[2])]]
    /\ UNCHANGED <<called, args, sync_vars, env_vars, retry_vars, fetch_vars,
                   csv_vars>>

CacheNext == CachePaths

CacheSpec == CacheInit /\ [][CacheNext]_vars

----------------------------------------------------------------------------
\* The fetch entry points: twelve_data/fetch.py, twelve_data/fetch_tickers.py
\* and yahoo_finance/fetch_tickers.py.  The loop of main is followed one asset
\* at a time; cache_before and cache_file are the cache file of the asset the
\* loop is at.

MaxAssets == 2

CACHE_TTL_SECONDS == 86400

FetchPrograms ==
    {"twelve_data/fetch.py", "twelve_data/fetch_tickers.py",
     "yahoo_finance/fetch_tickers.py"}

TwelveDataPrograms == {"twelve_data/fetch.py", "twelve_data/fetch_tickers.py"}

\* The provider symbols of the registry's assets, in registry order.
AssetSymbols == <<"S1", "S2", "S3">>

symbol_rank(symbol) ==
    CHOOSE k \in 1..Len(AssetSymbols) : AssetSymbols[k] = symbol

\* The exchange the registry gives an asset: the second asset of a run of
\* twelve_data/fetch.py has none; the yahoo program reads no exchange.
exchange_of(prog, symbol) ==
    IF prog = "yahoo_finance/fetch_tickers.py" THEN None
    ELSE IF prog = "twelve_data/fetch.py" /\ symbol = "S2" THEN None
    ELSE Str(<<"NYSE">>)

\* A faulty variant of request_window: the lookback is always sent.
request_window_both_forms(prog, start_date, end_date) ==
    IF both_dates(start_date, end_date)
        THEN IF prog = "yahoo_finance/fetch_tickers.py"
               THEN [start |-> isoformat(start_date), end |-> isoformat(end_date),
                     period |-> PERIOD]
             ELSE [start_date |-> isoformat(start_date),
                   end_date |-> isoformat(end_date),
                   outputsize |-> OUTPUT_SIZE]
    ELSE IF prog = "yahoo_finance/fetch_tickers.py" THEN [period |-> PERIOD]
    ELSE [outputsize |-> OUTPUT_SIZE]

\* The window of the params: start and end, or the lookback.
request_window(prog, start_date, end_date) ==
    IF both_dates(start_date, end_date)
        THEN IF prog = "yahoo_finance/fetch_tickers.py"
               THEN [start |-> isoformat(start_date), end |-> isoformat(end_date)]
             ELSE [start_date |-> isoformat(start_date),
                   end_date |-> isoformat(end_date)]
    ELSE IF prog = "yahoo_finance/fetch_tickers.py" THEN [period |-> PERIOD]
    ELSE [outputsize |-> OUTPUT_SIZE]

\* params of _request_time_series, request_time_series_with_retries and
\* download_with_retries.
request_params(prog, symbol, exchange, start_date, end_date) ==
    LET base == IF prog = "yahoo_finance/fetch_tickers.py"
                  THEN [interval |-> INTERVAL(prog), progress |-> FALSE,
                        threads |-> FALSE]
                ELSE [symbol |-> symbol, interval |-> INTERVAL(prog)]
        windowed == base @@ request_window(prog, start_date, end_date)
    IN IF prog # "yahoo_finance/fetch_tickers.py" /\ exchange # None
         THEN windowed @@ [exchange |-> exchange.str]
       ELSE windowed

\* The table a cache file holds, and the table normalize makes of an answer
\* with values.
CachedTable(symbol) == [symbol |-> symbol, rows |-> "cached"]

FetchedTable(symbol) == [symbol |-> symbol, rows |-> "fetched"]

\* pd.DataFrame(): no rows.
EmptyTable == [symbol |-> "none", rows |-> "none"]

\* A file: its age (time.time() - st_mtime, in seconds) and its table.
File(age, table) == [exists |-> TRUE, age |-> age, table |-> table]

\* What the asset's cache path can hold when the loop looks at it.
CacheFiles(symbol) ==
    {NoFile} \cup
    { File(age, CachedTable(symbol)) :
        age \in {CACHE_TTL_SECONDS - 1, CACHE_TTL_SECONDS, CACHE_TTL_SECONDS + 1} }

\* The cache directory with the file at the symbol's path.
put_file(dir, symbol, file) ==
    [s \in DOMAIN dir \cup {symbol} |-> IF s = symbol THEN file ELSE dir[s]]

\* A faulty variant of is_cache_fresh: a file of exactly the TTL's age is fresh.
is_cache_fresh_inclusive(file) == file.exists /\ file.age <= CACHE_TTL_SECONDS

\* is_cache_fresh: path.exists() and cache_age_seconds(path) < CACHE_TTL_SECONDS
is_cache_fresh(file) == file.exists /\ file.age < CACHE_TTL_SECONDS

\* The `not payload` / `df.empty` / `out.empty` tests of main: the retry loop
\* gave an answer and normalize makes a non-empty table of it.
normalize(result, symbol) ==
    IF result = None THEN EmptyTable
    ELSE IF result.payload = "values" THEN FetchedTable(symbol)
    ELSE EmptyTable

\* final_df.sort_values(by=["symbol", ...]) of pd.concat(all_rows).
RECURSIVE sort_values(_)
sort_values(tables) ==
    IF tables = <<>> THEN <<>>
    ELSE LET first == Head(tables)
             rest == sort_values(Tail(tables))
             Before(t) == symbol_rank(t.symbol) < symbol_rank(first.symbol)
             NotBefore(t) == ~Before(t)
         IN SelectSeq(rest, Before) \o <<first>> \o SelectSeq(rest, NotBefore)

\* final_df.to_csv(OUT_PATH)
WrittenOut(tables) == [exists |-> TRUE, tables |-> sort_values(tables)]

\* The output artifact an earlier run left.
OldOut == [exists |-> TRUE, tables |-> <<[symbol |-> "S1", rows |-> "older"]>>]

\* OUT_PATH of the fetch entry point, below REPO_ROOT.
OUT_PATH(prog) ==
    IF prog = "yahoo_finance/fetch_tickers.py"
        THEN "out/yahoo_finance_tickers_eod.csv"
    ELSE "out/twelve_data_time_series_1day.csv"

\* The columns of the tables normalize makes, which are the columns of the
\* cache files and of the output artifact.
out_columns(prog) ==
    IF prog = "yahoo_finance/fetch_tickers.py"
        THEN {"date", "close_ars", "volume", "ticker"}
    ELSE {"date", "close_usd", "volume", "symbol", "exchange", "currency",
          "interval"}

\* The sync entry point of the provider's pipeline.
sync_stage(prog) ==
    IF prog = "yahoo_finance/fetch_tickers.py" THEN "yahoo_finance/sync_db.py"
    ELSE "twelvedata/sync.py"

\* CSV_PATH of the sync entry point, below REPO_ROOT.
CSV_PATH(sync) ==
    IF sync = "yahoo_finance/sync_db.py" THEN "out/yahoo_finance_tickers_eod.csv"
    ELSE "out/twelvedata_prices.csv"

\* required_columns of the sync entry point's validate_and_load_csv.
required_columns(sync) ==
    IF sync = "yahoo_finance/sync_db.py" THEN {"date", "close_ars", "ticker"}
    ELSE {"as_of_date", "price", "twelvedata_symbol"}

\* The environments of a fetch run.  yahoo_finance/fetch_tickers.py does not
\* read TWELVEDATA_API_KEY.
FetchEnvirons(prog) ==
    [FORCE_REFRESH : {Unset, Raw(""), Raw("true")},
     START_DATE : {Unset, Raw("2024-01-31")},
     END_DATE : {Unset, Raw("2024-01-01"), Raw("2024-01-31")},
     TWELVEDATA_API_KEY :
        IF prog \in TwelveDataPrograms THEN {Unset, Raw("key")} ELSE {Unset},
     DATABASE_URL : {Unset},
     RUN_ID : {Unset}]

FetchInit ==
    /\ program \in FetchPrograms
    /\ environ \in FetchEnvirons(program)
    /\ required_envs = {} /\ envs = None
    /\ fpc = "start" /\ td_assets = <<>> /\ asset = 0
    /\ cache_before = NoFile /\ cache_file = NoFile
    /\ all_rows = <<>> /\ processed = <<>>
    /\ out_file \in {NoFile, OldOut}
    /\ fexit = None
    /\ params = <<>> /\ cache_path = <<>> /\ cache_dir = <<>>
    /\ RetryIdle /\ CsvIdle /\ CallIdle /\ SyncIdle

\* main of the twelve_data programs: envs = get_envs(required_envs=[
\* "TWELVEDATA_API_KEY"]) returns.
MainGetEnvs ==
    /\ program \in TwelveDataPrograms /\ fpc = "start"
    /\ get_envs(environ, {"TWELVEDATA_API_KEY"}) # Raised("ValueError")
    /\ required_envs' = {"TWELVEDATA_API_KEY"}
    /\ envs' = get_envs(environ, {"TWELVEDATA_API_KEY"})
    /\ fpc' = "envs"
    /\ UNCHANGED <<environ, program, td_assets, asset, cache_before, cache_file,
                   all_rows, processed, out_file, fexit>>
    /\ UNCHANGED <<sync_vars, retry_vars, csv_vars, call_vars>>
    /\ UNCHANGED <<params, cache_path, cache_dir>>

\* get_envs raises ValueError, which nothing catches.
MainGetEnvsRaises ==
    /\ program \in TwelveDataPrograms /\ fpc = "start"
    /\ get_envs(environ, {"TWELVEDATA_API_KEY"}) = Raised("ValueError")
    /\ required_envs' = {"TWELVEDATA_API_KEY"}
    /\ envs' = Raised("ValueError")
    /\ fpc' = "crashed"
    /\ fexit' = 1
    /\ UNCHANGED <<environ, program, td_assets, asset, cache_before, cache_file,
                   all_rows, processed, out_file>>
    /\ UNCHANGED <<sync_vars, retry_vars, csv_vars, call_vars>>
    /\ UNCHANGED <<params, cache_path, cache_dir>>

\* assets = load_assets(ASSETS_PATH), filtered to the provider's assets: after
\* get_envs in the twelve_data programs, first thing in the yahoo one.  The
\* test of fetch_tickers.py, lines 133-134, is part of the guard: get_envs has
\* made it already.
LoadAssets ==
    /\ \/ program \in TwelveDataPrograms /\ fpc = "envs"
       \/ program = "yahoo_finance/fetch_tickers.py" /\ fpc = "start"
    /\ program = "twelve_data/fetch_tickers.py" =>
          ((envs.start_date = None) <=> (envs.end_date = None))
    /\ \E n \in 0..MaxAssets : td_assets' = SubSeq(AssetSymbols, 1, n)
    /\ fpc' = IF program \in TwelveDataPrograms THEN "loop" ELSE "assets"
    /\ asset' = IF program \in TwelveDataPrograms THEN 1 ELSE 0
    /\ UNCHANGED <<program, cache_before, cache_file, all_rows, processed,
                   out_file, fexit>>
    /\ UNCHANGED <<sync_vars, env_vars, retry_vars, csv_vars, call_vars>>
    /\ UNCHANGED <<params, cache_path, cache_dir>>

\* yahoo_finance/fetch_tickers.py main: env_bool and env_date return.
YahooEnvs ==
    /\ program = "yahoo_finance/fetch_tickers.py" /\ fpc = "assets"
    /\ yahoo_envs(environ) # Raised("ValueError")
    /\ envs' = yahoo_envs(environ)
    /\ fpc' = "loop"
    /\ asset' = 1
    /\ UNCHANGED <<environ, required_envs, program, td_assets, cache_before,
                   cache_file, all_rows, processed, out_file, fexit>>
    /\ UNCHANGED <<sync_vars, retry_vars, csv_vars, call_vars>>
    /\ UNCHANGED <<params, cache_path, cache_dir>>

\* env_bool or env_date raises ValueError, which nothing catches.
YahooEnvsRaises ==
    /\ program = "yahoo_finance/fetch_tickers.py" /\ fpc = "assets"
    /\ yahoo_envs(environ) = Raised("ValueError")
    /\ envs' = Raised("ValueError")
    /\ fpc' = "crashed"
    /\ fexit' = 1
    /\ UNCHANGED <<environ, required_envs, program, td_assets, asset,
                   cache_before, cache_file, all_rows, processed, out_file>>
    /\ UNCHANGED <<sync_vars, retry_vars, csv_vars, call_vars>>
    /\ UNCHANGED <<params, cache_path, cache_dir>>

\* if is_cache_fresh(cache_path) and not force_refresh: the cached table is
\* read and appended, continue.
UseCache ==
    /\ fpc = "loop" /\ asset <= Len(td_assets)
    /\ \E file \in CacheFiles(td_assets[asset]) :
          /\ is_cache_fresh(file) /\ ~envs.force_refresh
          /\ cache_before' = file
          /\ cache_file' = file
          /\ cache_dir' = put_file(cache_dir, td_assets[asset], file)
          /\ all_rows' = Append(all_rows, file.table)
    /\ cache_path' = cache_path_of(program, <<td_assets[asset]>>,
                         exchange_of(program, td_assets[asset]),
                         envs.start_date, envs.end_date)
    /\ fpc' = "cached"
    /\ UNCHANGED <<program, td_assets, asset, processed, out_file, fexit, params>>
    /\ UNCHANGED <<sync_vars, env_vars, retry_vars, csv_vars, call_vars>>

\* Otherwise the provider is asked: _request_time_series /
\* request_time_series_with_retries / download_with_retries start their loop.
StartRequest ==
    /\ fpc = "loop" /\ asset <= Len(td_assets)
    /\ \E file \in CacheFiles(td_assets[asset]) :
          /\ ~(is_cache_fresh(file) /\ ~envs.force_refresh)
          /\ cache_before' = file
          /\ cache_file' = file
          /\ cache_dir' = put_file(cache_dir, td_assets[asset], file)
    /\ cache_path' = cache_path_of(program, <<td_assets[asset]>>,
                         exchange_of(program, td_assets[asset]),
                         envs.start_date, envs.end_date)
    /\ params' = request_params(program, <<td_assets[asset]>>,
                     exchange_of(program, td_assets[asset]),
                     envs.start_date, envs.end_date)
    /\ fpc' = "fetching"
    /\ jitter' = (program # "twelve_data/fetch.py")
    /\ attempt' = 1 /\ fn_calls' = <<>> /\ slept' = <<>>
    /\ rpc' = "call" /\ retry_result' = None
    /\ UNCHANGED <<program, td_assets, asset, all_rows, processed, out_file,
                   fexit>>
    /\ UNCHANGED <<sync_vars, env_vars, csv_vars, call_vars>>

\* A faulty variant of SkipAsset: an asset without data ends the run.
SkipAssetAborting ==
    /\ fpc = "fetching" /\ rpc = "returned"
    /\ normalize(retry_result, td_assets[asset]) = EmptyTable
    /\ fpc' = "aborted"
    /\ fexit' = 1
    /\ UNCHANGED <<program, td_assets, asset, cache_before, cache_file,
                   all_rows, processed, out_file>>
    /\ UNCHANGED <<sync_vars, env_vars, retry_vars, csv_vars, call_vars>>
    /\ UNCHANGED <<params, cache_path, cache_dir>>

\* A faulty variant of SkipAsset: the empty table is written to the cache
\* before the asset is skipped.
SkipAssetWritingCache ==
    /\ fpc = "fetching" /\ rpc = "returned"
    /\ normalize(retry_result, td_assets[asset]) = EmptyTable
    /\ cache_file' = File(0, EmptyTable)
    /\ cache_dir' = put_file(cache_dir, td_assets[asset], File(0, EmptyTable))
    /\ fpc' = "skipped"
    /\ UNCHANGED <<program, td_assets, asset, cache_before, all_rows,
                   processed, out_file, fexit>>
    /\ UNCHANGED <<sync_vars, env_vars, retry_vars, csv_vars, call_vars>>
    /\ UNCHANGED <<params, cache_path>>

\* The loop gave nothing, or nothing with values: WARNING, continue.
SkipAsset ==
    /\ fpc = "fetching" /\ rpc = "returned"
    /\ normalize(retry_result, td_assets[asset]) = EmptyTable
    /\ fpc' = "skipped"
    /\ UNCHANGED <<program, td_assets, asset, cache_before, cache_file,
                   all_rows, processed, out_file, fexit>>
    /\ UNCHANGED <<sync_vars, env_vars, retry_vars, csv_vars, call_vars>>
    /\ UNCHANGED <<params, cache_path, cache_dir>>

\* out.to_csv(cache_path); all_rows.append(out)
StoreAsset ==
    /\ fpc = "fetching" /\ rpc = "returned"
    /\ normalize(retry_result, td_assets[asset]) # EmptyTable
    /\ cache_file' = File(0, normalize(retry_result, td_assets[asset]))
    /\ cache_dir' = put_file(cache_dir, td_assets[asset],
                        File(0, normalize(retry_result, td_assets[asset])))
    /\ all_rows' = Append(all_rows, normalize(retry_result, td_assets[asset]))
    /\ fpc' = "stored"
    /\ UNCHANGED <<program, td_assets, asset, cache_before, processed,
                   out_file, fexit>>
    /\ UNCHANGED <<sync_vars, env_vars, retry_vars, csv_vars, call_vars>>
    /\ UNCHANGED <<params, cache_path>>

\* The for statement goes to the next asset.
NextAsset ==
    /\ fpc \in {"cached", "skipped", "stored"}
    /\ processed' = Append(processed,
          [symbol |-> td_assets[asset], result |-> fpc,
           requests |-> Len(fn_calls)])
    /\ asset' = asset + 1
    /\ fpc' = "loop"
    /\ cache_before' = NoFile /\ cache_file' = NoFile
    /\ params' = <<>> /\ cache_path' = <<>>
    /\ UNCHANGED cache_dir
    /\ jitter' = FALSE /\ attempt' = 0 /\ fn_calls' = <<>> /\ slept' = <<>>
    /\ rpc' = "idle" /\ retry_result' = None
    /\ UNCHANGED <<program, td_assets, all_rows, out_file, fexit>>
    /\ UNCHANGED <<sync_vars, env_vars, csv_vars, call_vars>>

\* The for statement is over.
LoopEnd ==
    /\ fpc = "loop" /\ asset > Len(td_assets)
    /\ fpc' = "collected"
    /\ UNCHANGED <<program, td_assets, asset, cache_before, cache_file,
                   all_rows, processed, out_file, fexit>>
    /\ UNCHANGED <<sync_vars, env_vars, retry_vars, csv_vars, call_vars>>
    /\ UNCHANGED <<params, cache_path, cache_dir>>

\* A faulty variant of NoData: the run writes the empty table and succeeds.
NoDataWritesEmpty ==
    /\ fpc = "collected" /\ all_rows = <<>>
    /\ out_file' = WrittenOut(all_rows)
    /\ fpc' = "done"
    /\ fexit' = 0
    /\ UNCHANGED <<program, td_assets, asset, cache_before, cache_file,
                   all_rows, processed>>
    /\ UNCHANGED <<sync_vars, env_vars, retry_vars, csv_vars, call_vars>>
    /\ UNCHANGED <<params, cache_path, cache_dir>>

\* if not all_rows: raise SystemExit("No data fetched for any symbol.")
NoData ==
    /\ fpc = "collected" /\ all_rows = <<>>
    /\ fpc' = "aborted"
    /\ fexit' = 1
    /\ UNCHANGED <<program, td_assets, asset, cache_before, cache_file,
                   all_rows, processed, out_file>>
    /\ UNCHANGED <<sync_vars, env_vars, retry_vars, csv_vars, call_vars>>
    /\ UNCHANGED <<params, cache_path, cache_dir>>

\* pd.concat, sort_values, final_df.to_csv(OUT_PATH); main returns.
WriteOut ==
    /\ fpc = "collected" /\ all_rows # <<>>
    /\ out_file' = WrittenOut(all_rows)
    /\ fpc' = "done"
    /\ fexit' = 0
    /\ UNCHANGED <<program, td_assets, asset, cache_before, cache_file,
                   all_rows, processed>>
    /\ UNCHANGED <<sync_vars, env_vars, retry_vars, csv_vars, call_vars>>
    /\ UNCHANGED <<params, cache_path, cache_dir>>

FetchNext ==
    \/ MainGetEnvs
    \/ MainGetEnvsRaises
    \/ LoadAssets
    \/ YahooEnvs
    \/ YahooEnvsRaises
    \/ UseCache
    \/ StartRequest
    \/ FnReturns
    \/ FnRaises
    \/ GiveUp
    \/ SkipAsset
    \/ StoreAsset
    \/ NextAsset
    \/ LoopEnd
    \/ NoData
    \/ WriteOut

FetchSpec == FetchInit /\ [][FetchNext]_vars

-----------------------------------------------------------------------------
\* A fetch run that is killed, and the cache look of a later run of the same
\* program in the same environment on the directory the killed run left.

\* What out.to_csv(cache_path) leaves when the process dies inside it: the
\* path is opened for writing, which truncates it, and the text is written
\* through a buffer; the file holds no byte yet, or the head of the text.
NoBytes == [symbol |-> "none", rows |-> "no bytes"]

TruncatedTable(symbol) == [symbol |-> symbol, rows |-> "truncated"]

TornFiles(symbol) == {File(0, NoBytes), File(0, TruncatedTable(symbol))}

\* The times between the kill and the later run's look, in seconds.
LaterElapsed == {1, CACHE_TTL_SECONDS}

\* The file after the seconds went by.
aged(file, seconds) ==
    IF file.exists THEN [file EXCEPT !.age = @ + seconds] ELSE file

\* What is left of a killed process: its exit status (137 for SIGKILL, as a
\* shell reports it) and nothing of its memory.  The registry and the
\* environment stay for the later run.
Dead ==
    /\ fpc' = "killed"
    /\ fexit' = 137
    /\ asset' = 0 /\ cache_before' = NoFile /\ cache_file' = NoFile
    /\ all_rows' = <<>> /\ processed' = <<>>
    /\ params' = <<>> /\ cache_path' = <<>>
    /\ jitter' = FALSE /\ attempt' = 0 /\ fn_calls' = <<>> /\ slept' = <<>>
    /\ rpc' = "idle" /\ retry_result' = None
    /\ UNCHANGED <<program, td_assets, out_file>>
    /\ UNCHANGED <<sync_vars, env_vars, csv_vars, call_vars>>

\* The process is killed between two statements of main.
KillFetch ==
    /\ fpc \in {"start", "envs", "assets", "loop", "fetching", "cached",
               "skipped", "stored", "collected"}
    /\ Dead
    /\ UNCHANGED cache_dir

\* The process is killed inside out.to_csv(cache_path, index=False).
KillInCacheWrite ==
    /\ fpc = "fetching" /\ rpc = "returned"
    /\ normalize(retry_result, td_assets[asset]) # EmptyTable
    /\ \E file \in TornFiles(td_assets[asset]) :
          cache_dir' = put_file(cache_dir, td_assets[asset], file)
    /\ Dead

\* The later run comes to an asset the killed run looked at, finds its file
\* fresh and reads it: all_rows.append(pd.read_csv(cache_path)).
LaterRunUsesCache ==
    /\ fpc = "killed"
    /\ \E n \in 1..Len(td_assets), seconds \in LaterElapsed :
          /\ td_assets[n] \in DOMAIN cache_dir
          /\ LET file == aged(cache_dir[td_assets[n]], seconds) IN
                /\ is_cache_fresh(file) /\ ~envs.force_refresh
                /\ file.table # NoBytes
                /\ asset' = n
                /\ cache_before' = file
                /\ cache_file' = file
                /\ cache_dir' = put_file(cache_dir, td_assets[n], file)
                /\ all_rows' = <<file.table>>
    /\ fpc' = "later_cached"
    /\ fexit' = None
    /\ UNCHANGED <<program, td_assets, processed, out_file, params, cache_path>>
    /\ UNCHANGED <<sync_vars, env_vars, retry_vars, csv_vars, call_vars>>

\* The later run finds the file fresh and pd.read_csv raises EmptyDataError on
\* a file without a byte, which nothing catches.
LaterRunReadFails ==
    /\ fpc = "killed"
    /\ \E n \in 1..Len(td_assets), seconds \in LaterElapsed :
          /\ td_assets[n] \in DOMAIN cache_dir
          /\ LET file == aged(cache_dir[td_assets[n]], seconds) IN
                /\ is_cache_fresh(file) /\ ~envs.force_refresh
                /\ file.table = NoBytes
                /\ asset' = n
                /\ cache_before' = file
                /\ cache_file' = file
                /\ cache_dir' = put_file(cache_dir, td_assets[n], file)
    /\ all_rows' = <<>>
    /\ fpc' = "later_crashed"
    /\ fexit' = 1
    /\ UNCHANGED <<program, td_assets, processed, out_file, params, cache_path>>
    /\ UNCHANGED <<sync_vars, env_vars, retry_vars, csv_vars, call_vars>>

KillNext ==
    \/ MainGetEnvs
    \/ LoadAssets
    \/ YahooEnvs
    \/ UseCache
    \/ StartRequest
    \/ FnReturns
    \/ FnRaises
    \/ GiveUp
    \/ SkipAsset
    \/ StoreAsset
    \/ NextAsset
    \/ LoopEnd
    \/ NoData
    \/ WriteOut
    \/ KillFetch
    \/ KillInCacheWrite
    \/ LaterRunUsesCache
    \/ LaterRunReadFails

\* The runs that get to the loop: the key is set where it is required, and no
\* date bound is.
KillInit ==
    /\ FetchInit
    /\ environ.START_DATE = Unset /\ environ.END_DATE = Unset
    /\ program \in TwelveDataPrograms => environ.TWELVEDATA_API_KEY # Unset

KillSpec == KillInit /\ [][KillNext]_vars

----------------------------------------------------------------------------
\* The CSV loaders on raw files: utils/csv.py validate_and_load_csv (the
\* twelvedata sync stage's) and yahoo_finance/sync_db.py validate_and_load_csv.
\* Cells are the texts of the file; as_of_date, price, symbol stand for the
\* loader's three columns (date, close_ars, ticker in the yahoo file).

RawDateCells == {"2024-01-01", "2024-01-02", "not-a-date"}

RawPriceCells == {"1.5", "2", "0", "-5", "abc"}

\* A symbol, a second one, a cell of one space, an empty cell.
RawSymbolCells == {"S1", "S2", " ", ""}

RawCsvRows ==
    [as_of_date : RawDateCells, price : RawPriceCells, symbol : RawSymbolCells]

RawCsvFiles == SeqsUpTo(RawCsvRows, MaxCsvRows)

\* pd.to_datetime(errors="coerce") gives NaT for a text it cannot read.
NaT == [nat |-> TRUE]

\* pd.to_datetime(column, errors="coerce").dt.date, a date being its day of
\* January 2024.
to_datetime(text) ==
    IF text = "2024-01-01" THEN Date(1)
    ELSE IF text = "2024-01-02" THEN Date(2)
    ELSE NaT

\* pd.to_numeric(column, errors="coerce"): NaN for a text that is no number.
to_numeric(text) ==
    IF text = "1.5" THEN Dec(15, 1)
    ELSE IF text = "2" THEN Dec(2, 0)
    ELSE IF text = "0" THEN Dec(0, 0)
    ELSE IF text = "-5" THEN Dec(0 - 5, 0)
    ELSE NaN

\* pd.read_csv on a text column: an empty cell is a missing value (NaN), any
\* other cell is its text, spaces kept.
read_cell(text) == IF text = "" THEN NaN ELSE Str(text)

\* Series.astype(str): a missing value becomes the text "nan".
astype_str(value) == IF value = NaN THEN Str("nan") ELSE value

\* pd.read_csv and the two conversions of the loaders.
typed_rows(file) ==
    [i \in 1..Len(file) |->
        [as_of_date |-> to_datetime(file[i].as_of_date),
         price |-> to_numeric(file[i].price),
         symbol |-> read_cell(file[i].symbol)]]

\* The three checks both loaders make: isna() of the dates, isna() of the
\* prices, price <= 0.
dates_and_prices_ok(rows) ==
    /\ \A i \in 1..Len(rows) : rows[i].as_of_date # NaT
    /\ \A i \in 1..Len(rows) : rows[i].price # NaN
    /\ \A i \in 1..Len(rows) : rows[i].price.c > 0

\* Order of the symbol texts as Python compares strings.
text_rank(text) ==
    IF text = " " THEN 0 ELSE IF text = "S1" THEN 1 ELSE IF text = "S2" THEN 2 ELSE 3

row_before(a, b) ==
    \/ text_rank(a.symbol.str) < text_rank(b.symbol.str)
    \/ /\ a.symbol = b.symbol
       /\ a.as_of_date.date < b.as_of_date.date

\* df.sort_values([symbol_column, "as_of_date"]): rows with equal keys keep
\* their order.
RECURSIVE sort_rows(_)
sort_rows(rows) ==
    IF rows = <<>> THEN <<>>
    ELSE LET first == Head(rows)
             rest == sort_rows(Tail(rows))
             Before(r) == row_before(r, first)
             NotBefore(r) == ~row_before(r, first)
         IN SelectSeq(rest, Before) \o <<first>> \o SelectSeq(rest, NotBefore)

\* drop_duplicates(subset=[symbol_column, "as_of_date"], keep="last")
RECURSIVE drop_duplicates_last(_)
drop_duplicates_last(rows) ==
    IF rows = <<>> THEN <<>>
    ELSE LET first == Head(rows)
             later == Tail(rows)
         IN IF \E j \in 1..Len(later) :
                  /\ later[j].symbol = first.symbol
                  /\ later[j].as_of_date = first.as_of_date
                THEN drop_duplicates_last(later)
            ELSE <<first>> \o drop_duplicates_last(later)

Table(rows) == [rows |-> rows]

\* utils/csv.py validate_and_load_csv: the table, or SystemExit.
utils_validate_and_load_csv(file) ==
    LET rows == typed_rows(file)
        as_str == [i \in 1..Len(rows) |->
                     [rows[i] EXCEPT !.symbol = astype_str(rows[i].symbol)]]
    IN IF ~dates_and_prices_ok(rows) THEN Raised("SystemExit")
       ELSE IF \E i \in 1..Len(as_str) : strip(as_str[i].symbol.str) = ""
           THEN Raised("SystemExit")
       ELSE Table(drop_duplicates_last(sort_rows(as_str)))

\* yahoo_finance/sync_db.py validate_and_load_csv on the same file: no check
\* of the ticker column, rows as read.
yahoo_validate_and_load_csv(file) ==
    IF ~dates_and_prices_ok(typed_rows(file)) THEN Raised("SystemExit")
    ELSE Table(typed_rows(file))

Loaders == {"utils/csv.py", "yahoo_finance/sync_db.py"}

load_csv(which, file) ==
    IF which = "utils/csv.py" THEN utils_validate_and_load_csv(file)
    ELSE yahoo_validate_and_load_csv(file)

\* One call of a loader on a file.
CsvInit ==
    /\ loader \in Loaders
    /\ raw_csv \in RawCsvFiles
    /\ loaded = None
    /\ EnvIdle /\ RetryIdle /\ FetchIdle /\ SyncIdle /\ CallIdle

\* The loader returns the table.
CsvLoadReturns ==
    /\ loader \in Loaders /\ loaded = None
    /\ load_csv(loader, raw_csv) # Raised("SystemExit")
    /\ loaded' = load_csv(loader, raw_csv)
    /\ UNCHANGED <<raw_csv, loader, sync_vars, env_vars, retry_vars, fetch_vars,
                   call_vars>>

\* The loader raises SystemExit.
CsvLoadAborts ==
    /\ loader \in Loaders /\ loaded = None
    /\ load_csv(loader, raw_csv) = Raised("SystemExit")
    /\ loaded' = Raised("SystemExit")
    /\ UNCHANGED <<raw_csv, loader, sync_vars, env_vars, retry_vars, fetch_vars,
                   call_vars>>

CsvNext == CsvLoadReturns \/ CsvLoadAborts

CsvSpec == CsvInit /\ [][CsvNext]_vars

----------------------------------------------------------------------------
\* build_price_rows and diff_prices on the prices of one asset: the CSV file's
\* close_ars cells against the prices the table holds for the same days.

\* Cells for 100.10: the exact texts "100.10" and "100.1", the float-rounded
\* "100.09999" (fewer nines than a float64 gives, for the width of the model's
\* integers), and "100".
QuotedCells == {Dec(10010, 2), Dec(1001, 1), Dec(10009999, 5), Dec(100, 0)}

\* numeric values prices_snapshots holds for the asset: 100.10 and 100.1.
StoredPrices == {Dec(10010, 2), Dec(1001, 1)}

QuoteFiles ==
    SeqsUpTo([ticker : {"S1"}, date : Dates, close_ars : QuotedCells], MaxCsvRows)

QuoteRegistry == [S1 |-> Asset("AAA", "ARS")]

\* The tables: for each day of the asset, no row or a row with a stored price.
QuoteStores ==
    { t \in [AllKeys -> {NoRow} \cup {StoredRow("ARS", p, "twelvedata", "earlier") :
                                       p \in StoredPrices}] :
        \A k \in AllKeys : k[2] # "AAA" => t[k] = NoRow }

\* One classification: a file, a table.
QuoteInit ==
    /\ called = "diff_prices"
    /\ args \in [file : QuoteFiles, store : QuoteStores]
    /\ returned = None
    /\ EnvIdle /\ RetryIdle /\ FetchIdle /\ CsvIdle /\ SyncIdle

\* desired = build_price_rows(df, by_ticker); existing = fetch_existing_prices(
\* conn, keys); diff_prices(desired, existing) returns the plan.
ClassifyPrices ==
    /\ called = "diff_prices" /\ returned = None
    /\ LET rows == build_price_rows(validate_and_load_csv(args.file), QuoteRegistry)
           found == fetch_existing_prices(args.store, keys_of(rows))
       IN returned' = [desired |-> rows, existing |-> found,
                       plan |-> diff_prices(rows, found)]
    /\ UNCHANGED <<called, args, sync_vars, env_vars, retry_vars, fetch_vars,
                   csv_vars>>

QuoteNext == ClassifyPrices

QuoteSpec == QuoteInit /\ [][QuoteNext]_vars

----------------------------------------------------------------------------
\* utils/assets.py: load_assets on the parsed assets.json.

\* Longest list of entries assets.json holds.
MaxRecords == 2

\* A key the object does not have.
Absent == [absent |-> TRUE]

\* An entry of the list that is no JSON object (a text, a number, a list).
NotADict == [not_a_dict |-> TRUE]

RequiredKeys == {"asset_id", "account_id", "quote_currency"}

\* The objects of the list: each required key absent or present; asset_id can
\* be null; quote_currency is one of three texts.
RawRecords ==
    [asset_id : {Absent, None, Str("AAA")},
     account_id : {Absent, Str("acct1")},
     quote_currency : {Absent, Str("ARS"), Str("USD"), Str("EUR")}]

\* json.loads(path.read_text()): a list of entries, or a value that is no list.
JsonList(entries) == [list |-> entries]

NotAList == [object |-> TRUE]

RawRegistries ==
    {JsonList(entries) : entries \in SeqsUpTo(RawRecords \cup {NotADict}, MaxRecords)}
        \cup {NotAList}

\* A faulty variant of currency_supported: any currency goes.
currency_unchecked(quote_currency) == TRUE

\* quote_currency in ("ARS", "USD")
currency_supported(quote_currency) == quote_currency \in {Str("ARS"), Str("USD")}

\* Asset(asset_id=a["asset_id"], account_id=a["account_id"], quote_currency=...)
loaded_asset(a) ==
    [asset_id |-> a.asset_id, account_id |-> a.account_id,
     quote_currency |-> a.quote_currency]

\* The for loop of load_assets over the entries left, out being the list built
\* so far: the list returned, or the ValueError raised.
RECURSIVE load_entries(_, _)
load_entries(entries, out) ==
    IF entries = <<>> THEN [assets |-> out]
    ELSE LET a == Head(entries) IN
         IF a = NotADict THEN load_entries(Tail(entries), out)
         ELSE IF \E key \in RequiredKeys : a[key] = Absent
             THEN Raised("ValueError")
         ELSE IF ~currency_supported(a.quote_currency) THEN Raised("ValueError")
         ELSE load_entries(Tail(entries), Append(out, loaded_asset(a)))

load_assets(raw) ==
    IF raw = NotAList THEN Raised("ValueError") ELSE load_entries(raw.list, <<>>)

\* One call of load_assets.
AssetsInit ==
    /\ called = "load_assets"
    /\ args \in RawRegistries
    /\ returned = None
    /\ EnvIdle /\ RetryIdle /\ FetchIdle /\ CsvIdle /\ SyncIdle

\* load_assets returns the list.
AssetsLoadReturns ==
    /\ called = "load_assets" /\ returned = None
    /\ load_assets(args) # Raised("ValueError")
    /\ returned' = load_assets(args)
    /\ UNCHANGED <<called, args, sync_vars, env_vars, retry_vars, fetch_vars,
                   csv_vars>>

\* load_assets raises ValueError.
AssetsLoadRaises ==
    /\ called = "load_assets" /\ returned = None
    /\ load_assets(args) = Raised("ValueError")
    /\ returned' = Raised("ValueError")
    /\ UNCHANGED <<called, args, sync_vars, env_vars, retry_vars, fetch_vars,
                   csv_vars>>

AssetsNext == AssetsLoadReturns \/ AssetsLoadRaises

AssetsSpec == AssetsInit /\ [][AssetsNext]_vars

----------------------------------------------------------------------------
\* Properties.

DistinctKeys(rows) ==
    \A i, j \in 1..Len(rows) : i # j => KeyOf(rows[i]) # KeyOf(rows[j])

KeySet(rows) == {KeyOf(rows[i]) : i \in 1..Len(rows)}

\* main has computed the plan and not failed since.
PlanReady == pc \in {"planned", "logged", "upserted", "committed", "done"}

\* write_jsonl has returned.
LogWritten == pc \in {"logged", "upserted", "committed", "done"}

\* The run has ended.
Ended == pc \in {"done", "failed", "aborted", "crashed", "killed"}

\* What the run appended to its log file.
Appended == SubSeq(log, Len(log0) + 1, Len(log))

\* C1: for a desired list with pairwise-distinct keys, diff_prices puts an
\* observation in to_insert iff its key has no existing price, in to_update
\* (with the existing price) iff the existing price differs in value from the
\* observation's, and counts it as unchanged otherwise.
C1_Classification ==
    (PlanReady /\ DistinctKeys(desired)) =>
        /\ \A i \in 1..Len(desired) :
            LET o == desired[i]
                k == KeyOf(o)
            IN /\ (\E j \in 1..Len(plan.to_insert) : plan.to_insert[j] = o)
                    <=> k \notin DOMAIN existing
               /\ (\E j \in 1..Len(plan.to_update) : plan.to_update[j][1] = o)
                    <=> (k \in DOMAIN existing /\ ~DecEq(existing[k], o.price))
               /\ \A j \in 1..Len(plan.to_update) :
                    plan.to_update[j][1] = o => plan.to_update[j][2] = existing[k]
        /\ plan.unchanged =
             Cardinality({i \in 1..Len(desired) :
                 /\ KeyOf(desired[i]) \in DOMAIN existing
                 /\ DecEq(existing[KeyOf(desired[i])], desired[i].price)})
        /\ Len(plan.to_insert) + Len(plan.to_update) + plan.unchanged = Len(desired)

\* The scenario of the claim: one key stored with another price, one key new.
C1_Witness ==
    /\ pc = "planned"
    /\ Len(desired) = 2 /\ DistinctKeys(desired)
    /\ Len(plan.to_update) = 1 /\ plan.to_update[1][1].asset_id = "AAA"
    /\ plan.to_update[1][2] = Dec(15, 1)
    /\ Len(plan.to_insert) = 1 /\ plan.to_insert[1].asset_id = "BBB"
    /\ plan.unchanged = 0

\* C2: the plan puts every key of the desired list in exactly one class, and
\* the three classes together count the distinct keys.
C2_PlanPartitionsKeys ==
    PlanReady =>
        /\ Len(plan.to_insert) + Len(plan.to_update) + plan.unchanged
             = Cardinality(KeySet(desired))
        /\ DistinctKeys(plan.to_insert)
        /\ \A i, j \in 1..Len(plan.to_update) :
             i # j => KeyOf(plan.to_update[i][1]) # KeyOf(plan.to_update[j][1])
        /\ \A i \in 1..Len(plan.to_insert), j \in 1..Len(plan.to_update) :
             KeyOf(plan.to_insert[i]) # KeyOf(plan.to_update[j][1])

\* C3: once the upsert of the desired list is committed, the plan recomputed
\* against the table is empty: nothing to insert, nothing to update, every
\* observation unchanged.
C3_PlanIdempotent ==
    pc \in {"committed", "done"} =>
        diff_prices(desired, fetch_existing_prices(store, keys_of(desired)))
            = [to_insert |-> <<>>, to_update |-> <<>>, unchanged |-> Len(desired)]

\* C4: once the upsert of the desired list is committed, running upsert_prices
\* again with the same list, in a later transaction, changes no column of any
\* row.
C4_UpsertIdempotent ==
    pc \in {"committed", "done"} =>
        upsert_prices(store, desired, Len(desired), "later") = store

\* C5: the observation list handed to diff_prices and upsert_prices has
\* pairwise-distinct keys.
C5_DistinctKeys == PlanReady => DistinctKeys(desired)

\* C6: when writing the audit log fails, no statement of the upsert is
\* executed, nothing is committed, the table is as it was before the run and
\* the process exits non-zero.
C6_LogFailureAborts ==
    raised_by = "log" =>
        /\ executed = 0
        /\ ~committed
        /\ store = store0
        /\ conn.open => conn.rows = store0
        /\ pc \in {"raised", "failed", "killed"}
        /\ pc = "failed" => exit_code = 1

\* write_jsonl failed after it wrote some of a non-empty plan's events.
C6_Witness ==
    /\ pc = "failed" /\ raised_by = "log"
    /\ Len(log) > Len(log0)
    /\ plan.to_insert # <<>> /\ plan.to_update # <<>>

\* C7: after the run has ended, its log file holds insert or update records
\* of the run only if the run's transaction committed.
C7_LogOnlyIfCommitted ==
    (Ended /\ \E i \in 1..Len(Appended) : Appended[i].action \in {"insert", "update"})
        => committed

\* C8: the batch's writes reach the table all together or not at all; a run
\* that fails or is killed before the commit leaves the table as it was, and a
\* failed run exits non-zero.
C8_NoPartialCommit ==
    /\ ~committed => store = store0
    /\ committed => store = upsert_prices(store0, desired, Len(desired), "this_run")
    /\ pc = "failed" => (exit_code = 1 /\ ~committed)

\* The upsert failed after statements that changed the transaction's view.
C8_Witness ==
    /\ pc = "failed" /\ raised_by = "upsert"
    /\ executed > 0
    /\ upsert_prices(store0, desired, executed, "this_run") # store0
    /\ store = store0

\* C9: write_jsonl having returned, the run has appended one insert record per
\* element of to_insert (old_price null, new_price the price's string), then
\* one update record per element of to_update (old_price the carried price,
\* new_price the new one), then exactly one summary record.
C9_LogRecords ==
    LogWritten =>
        LET ni == Len(plan.to_insert)
            nu == Len(plan.to_update)
        IN /\ Len(log) >= Len(log0) /\ SubSeq(log, 1, Len(log0)) = log0
           /\ Len(Appended) = ni + nu + 1
           /\ \A i \in 1..ni :
                /\ Appended[i].action = "insert"
                /\ Appended[i].old_price = None
                /\ Appended[i].new_price = DecStr(plan.to_insert[i].price)
                /\ <<Appended[i].as_of_date, Appended[i].asset_id, Appended[i].account_id>>
                     = <<str_date(plan.to_insert[i].as_of_date),
                         plan.to_insert[i].asset_id, plan.to_insert[i].account_id>>
           /\ \A i \in 1..nu :
                /\ Appended[ni + i].action = "update"
                /\ Appended[ni + i].old_price = DecStr(plan.to_update[i][2])
                /\ Appended[ni + i].new_price = DecStr(plan.to_update[i][1].price)
                /\ <<Appended[ni + i].as_of_date, Appended[ni + i].asset_id,
                     Appended[ni + i].account_id>>
                     = <<str_date(plan.to_update[i][1].as_of_date),
                         plan.to_update[i][1].asset_id, plan.to_update[i][1].account_id>>
           /\ Appended[ni + nu + 1].action = "summary"

\* A run that logged an insert and an update after an earlier run's records.
C9_Witness ==
    /\ pc = "logged" /\ log0 # <<>>
    /\ Len(plan.to_insert) = 1 /\ Len(plan.to_update) = 1

\* C10: in a committed run, the keys with an insert or update record are
\* exactly the keys whose row the upsert created or rewrote.
C10_AuditComplete ==
    pc \in {"committed", "done"} =>
        { <<Appended[i].as_of_date, Appended[i].asset_id, Appended[i].account_id>> :
            i \in {j \in 1..Len(Appended) : Appended[j].action \in {"insert", "update"}} }
        = { <<str_date(k[1]), k[2], k[3]>> : k \in {x \in AllKeys : store[x] # store0[x]} }


\* C11: the log file is append-only: whatever the file held before the run
\* (nothing, or the records of an earlier run under the same run identifier)
\* is a prefix of what it holds at every point of the run and after it.
C11_AppendOnly ==
    /\ Len(log) >= Len(log0)
    /\ SubSeq(log, 1, Len(log0)) = log0

\* A run that ended after appending to a file an earlier run had written.
C11_Witness ==
    /\ Ended /\ log0 = EarlierLog
    /\ Len(log) > Len(log0) + 1


\* C13: get_envs(required_envs=R) raises for every name of R that is unset or
\* blank in the environment.
C13_RequiredEnvsRaise ==
    (program = "none" /\ envs # None) =>
        \A n \in required_envs :
            is_blank(environ[n]) => envs = Raised("ValueError")


\* C18: retry_with_backoff calls fn at most MAX_RETRIES = 4 times, never calls
\* it again after a call that did not raise, returns that call's result, returns
\* None after 4 calls that raised, and always returns.
C18_RetryTerminates ==
    /\ [](/\ Len(fn_calls) <= 4
          /\ \A k \in 1..Len(fn_calls) - 1 :
                fn_calls[k] \in {"exception", "error_payload"}
          /\ rpc = "returned" =>
                IF fn_calls[Len(fn_calls)] \in {"exception", "error_payload"}
                    THEN Len(fn_calls) = 4 /\ retry_result = None
                ELSE retry_result = [payload |-> fn_calls[Len(fn_calls)]])
    /\ <>(rpc = "returned")

\* Four calls raised and the loop returned None.
C18_Witness ==
    /\ program = "none" /\ rpc = "returned"
    /\ Len(fn_calls) = 4 /\ retry_result = None

\* C12: with exactly one of START_DATE and END_DATE set, a fetch entry point
\* fails at start-up: it never reaches its loop over the assets and makes no
\* provider request.
C12_DateBoundsTogether ==
    (program \in FetchPrograms
        /\ is_blank(environ["START_DATE"]) # is_blank(environ["END_DATE"])) =>
        /\ fpc \in {"start", "assets", "crashed"}
        /\ fn_calls = <<>>

\* C16: a fetch run that got to its loop processes every asset of the
\* registry, whatever became of the earlier ones; when at least one asset gave
\* a table the run ends with status 0 and the output holds exactly the tables
\* of the assets that gave one.
C16_PartialFailureTolerated ==
    LET succeeded ==
            {k \in 1..Len(processed) : processed[k].result \in {"cached", "stored"}}
        table_of(k) ==
            [symbol |-> processed[k].symbol,
             rows |-> IF processed[k].result = "cached" THEN "cached" ELSE "fetched"]
    IN /\ fpc = "crashed" => (processed = <<>> /\ asset <= 1 /\ fn_calls = <<>>)
       /\ fpc \in {"done", "aborted"} =>
            /\ Len(processed) = Len(td_assets)
            /\ \A k \in 1..Len(processed) :
                 /\ processed[k].symbol = td_assets[k]
                 /\ processed[k].result = "skipped" => processed[k].requests >= 1
            /\ succeeded # {} =>
                 /\ fpc = "done" /\ fexit = 0
                 /\ out_file.exists
                 /\ {out_file.tables[j] : j \in 1..Len(out_file.tables)}
                      = {table_of(k) : k \in succeeded}

\* The first asset failed on all four attempts and the second was fetched.
C16_Witness ==
    /\ fpc = "done" /\ Len(processed) = 2
    /\ processed[1].result = "skipped" /\ processed[1].requests = 4
    /\ processed[2].result = "stored"
    /\ out_file.tables = <<[symbol |-> "S2", rows |-> "fetched"]>>

\* C17: a fetch run in which no asset gave a table ends with an error and
\* leaves the output artifact as it was; the artifact is written only when
\* some asset gave a table.
C17_NoDataNoOutput ==
    LET succeeded ==
            {k \in 1..Len(processed) : processed[k].result \in {"cached", "stored"}}
    IN /\ (fpc \in {"done", "aborted", "crashed"} /\ succeeded = {}) =>
            /\ fpc # "done"
            /\ fexit = 1
            /\ out_file \in {NoFile, OldOut}
       /\ out_file \notin {NoFile, OldOut} =>
            (succeeded # {} /\ out_file.tables # <<>>)

\* Both assets were asked for and neither gave a table; the earlier output
\* is still there.
C17_Witness ==
    /\ fpc = "aborted" /\ Len(processed) = 2
    /\ \A k \in 1..2 : processed[k].result = "skipped"
    /\ out_file = OldOut

\* C19: a request answered with an error payload or without values is not
\* retried: it is the last request made for its symbol in the run.
C19_SemanticErrorNotRetried ==
    \A k \in 1..Len(fn_calls) :
        fn_calls[k] \in {"error_payload", "no_values"} => k = Len(fn_calls)

\* C20: for the asset the loop is at, the cached table is used, with no
\* provider request, iff the cache file exists, is younger than 24 hours and
\* FORCE_REFRESH is off; otherwise the provider is asked, and an answer with
\* values replaces the cache file with the new table.
C20_CacheUse ==
    fpc \in {"cached", "fetching", "skipped", "stored"} =>
        LET usable == /\ cache_before.exists
                      /\ cache_before.age < 24 * 60 * 60
                      /\ ~envs.force_refresh
            new == [symbol |-> td_assets[asset], rows |-> "fetched"]
        IN /\ fpc = "cached" <=> usable
           /\ usable =>
                /\ fn_calls = <<>>
                /\ cache_file = cache_before
                /\ all_rows[Len(all_rows)] = cache_before.table
           /\ (~usable /\ fpc # "fetching") =>
                /\ fn_calls # <<>>
                /\ fpc = "stored" <=> fn_calls[Len(fn_calls)] = "values"
                /\ fpc = "stored" =>
                     /\ cache_file = [exists |-> TRUE, age |-> 0, table |-> new]
                     /\ all_rows[Len(all_rows)] = new
                /\ fpc = "skipped" => cache_file = cache_before

\* A cache file exactly 24 hours old was not used: the asset was fetched and
\* the file replaced.
C20_Witness ==
    /\ fpc = "stored"
    /\ cache_before.exists /\ cache_before.age = 24 * 60 * 60
    /\ ~envs.force_refresh
    /\ cache_file.age = 0

\* C14: a CSV file with a row whose date cannot be read, whose price is no
\* number or is not positive, or whose symbol is blank after trimming makes
\* validate_and_load_csv abort: it returns no table.
C14_AllOrNothing ==
    LET bad_row(r) ==
            \/ r.as_of_date = "not-a-date"
            \/ r.price \in {"0", "-5", "abc"}
            \/ r.symbol \in {"", " "}
    IN loaded # None =>
        ((\E i \in 1..Len(raw_csv) : bad_row(raw_csv[i]))
            => loaded = [raised |-> "SystemExit"])

\* C15: when a ticker of a row of the validated table is not in the
\* registry's map, the run ends in validate_csv_tickers_against_assets:
\* build_price_rows is not reached, no connection is opened, the table and the
\* log file are as they were.
C15_UnknownSymbolAborts ==
    (by_ticker # <<>> /\ \E i \in 1..Len(df) : df[i].ticker \notin DOMAIN by_ticker) =>
        /\ pc = "aborted"
        /\ raised_by = "none"
        /\ desired = <<>>
        /\ conn = NoConn /\ existing = <<>>
        /\ store = store0 /\ ~committed
        /\ log = log0


\* C21: the cache path is a deterministic and injective function of the
\* query: two calls with the same symbol, exchange and window (date range or
\* lookback) give the same path, and two calls that differ in one of them give
\* different paths.
C21_CacheKeyInjective ==
    (called \in FetchPrograms /\ returned # None) =>
        (args[1] = args[2] <=> returned.paths[1] = returned.paths[2])

\* C22: load_assets fails or returns only assets that have asset_id,
\* account_id and quote_currency, the currency being ARS or USD: an object of
\* the list that lacks a required key or carries another currency makes the
\* load fail, and the list returned is the list's objects, in order.
C22_LoadAssetsAllOrNothing ==
    (called = "load_assets" /\ returned # None) =>
        LET is_object(a) == a # [not_a_dict |-> TRUE]
            bad(a) ==
                \/ \E key \in {"asset_id", "account_id", "quote_currency"} :
                      a[key] = [absent |-> TRUE]
                \/ a.quote_currency \notin {[str |-> "ARS"], [str |-> "USD"]}
            objects == IF args = NotAList THEN <<>>
                       ELSE SelectSeq(args.list, is_object)
        IN /\ (args = NotAList \/ \E i \in 1..Len(objects) : bad(objects[i]))
                <=> returned = [raised |-> "ValueError"]
           /\ returned # [raised |-> "ValueError"] =>
                /\ Len(returned.assets) = Len(objects)
                /\ \A i \in 1..Len(objects) :
                     /\ returned.assets[i].asset_id = objects[i].asset_id
                     /\ returned.assets[i].account_id = objects[i].account_id
                     /\ returned.assets[i].quote_currency = objects[i].quote_currency
                     /\ returned.assets[i].quote_currency
                          \in {[str |-> "ARS"], [str |-> "USD"]}

\* A list whose first object is fine and whose second carries EUR: the load
\* failed.
C22_Witness ==
    /\ called = "load_assets" /\ returned = [raised |-> "ValueError"]
    /\ args # NotAList /\ Len(args.list) = 2
    /\ args.list[1] = [asset_id |-> [str |-> "AAA"], account_id |-> [str |-> "acct1"],
                       quote_currency |-> [str |-> "ARS"]]
    /\ args.list[2] = [asset_id |-> [str |-> "AAA"], account_id |-> [str |-> "acct1"],
                       quote_currency |-> [str |-> "EUR"]]

\* C23: after a fetch run that succeeded, the file the sync stage reads is the
\* file the fetch stage wrote, and it has the columns the sync stage's
\* validate_and_load_csv requires: its missing-file and missing-column checks
\* pass.
C23_FetchOutputIsSyncInput ==
    (program \in FetchPrograms /\ fpc = "done") =>
        /\ out_file.exists
        /\ CSV_PATH(sync_stage(program)) = OUT_PATH(program)
        /\ required_columns(sync_stage(program)) \subseteq out_columns(program)

\* C24: an observation whose cell is within a float's rounding error (less
\* than 0.001) of the stored price of its key is not classified UPDATE: a cell
\* 100.09999 against a stored 100.10 is not an update, and neither is 100.1
\* against 100.10.
C24_DecimalEquality ==
    (called = "diff_prices" /\ returned # None) =>
        LET scaled(d) == d.c * Pow10(5 - d.s)
            near(a, b) == /\ scaled(a) - scaled(b) < 100
                          /\ scaled(b) - scaled(a) < 100
            updated(o) == \E j \in 1..Len(returned.plan.to_update) :
                              returned.plan.to_update[j][1] = o
        IN \A i \in 1..Len(args.file) :
              LET o == returned.desired[i]
                  k == <<o.as_of_date, o.asset_id, o.account_id>>
              IN (args.store[k].present
                    /\ near(args.file[i].close_ars, args.store[k].price))
                   => ~updated(o)

\* C25: upsert_prices(D) changes a row of the table only if some observation
\* of D has the row's key and a price or quote_currency other than the stored
\* one; rows whose keys are not in D stay as they were, and a row whose stored
\* price and quote_currency equal those of every observation of its key keeps
\* every column, source and fetched_at included.
C25_UpsertFrame ==
    pc \in {"upserted", "committed", "done"} =>
        LET result == IF pc = "upserted" THEN conn.rows ELSE store
        IN \A k \in AllKeys :
              LET obs == {i \in 1..Len(desired) :
                            <<desired[i].as_of_date, desired[i].asset_id,
                              desired[i].account_id>> = k}
                  differs(i) ==
                      \/ ~store0[k].present
                      \/ ~DecEq(store0[k].price, desired[i].price)
                      \/ store0[k].quote_currency # desired[i].quote_currency
              IN /\ obs = {} => result[k] = store0[k]
                 /\ result[k] # store0[k] => \E i \in obs : differs(i)
                 /\ (\A i \in obs : ~differs(i)) => result[k] = store0[k]

\* The upsert rewrote one row and kept another, whose stored price and
\* currency equal the observation's while its source is the other provider's.
C25_Witness ==
    /\ pc = "upserted" /\ Len(desired) = 2
    /\ \E i, j \in 1..2 :
          LET ki == <<desired[i].as_of_date, desired[i].asset_id, desired[i].account_id>>
              kj == <<desired[j].as_of_date, desired[j].asset_id, desired[j].account_id>>
          IN /\ ki # kj
             /\ store0[ki].present /\ store0[ki].source = "twelvedata"
             /\ desired[i].source = "yahoo_finance"
             /\ conn.rows[ki] = store0[ki]
             /\ store0[kj].present /\ conn.rows[kj] # store0[kj]

\* C26: after upsert_prices(D) has committed, for every key of D the table
\* holds a row whose price and quote_currency are those of the last
\* observation of D with that key, whatever it held before.
C26_LastWriteWins ==
    pc \in {"committed", "done"} =>
        \A i \in 1..Len(desired) :
            LET k == <<desired[i].as_of_date, desired[i].asset_id,
                       desired[i].account_id>>
                is_last == \A j \in (i + 1)..Len(desired) :
                              <<desired[j].as_of_date, desired[j].asset_id,
                                desired[j].account_id>> # k
            IN is_last =>
                 /\ store[k].present
                 /\ DecEq(store[k].price, desired[i].price)
                 /\ store[k].quote_currency = desired[i].quote_currency

\* Two observations of one key with different prices were committed over a row
\* that held the first one's price.
C26_Witness ==
    /\ pc = "committed" /\ Len(desired) = 2
    /\ desired[1].as_of_date = desired[2].as_of_date
    /\ desired[1].asset_id = desired[2].asset_id
    /\ ~DecEq(desired[1].price, desired[2].price)
    /\ store0[<<desired[1].as_of_date, desired[1].asset_id, "acct1">>].present
    /\ DecEq(store0[<<desired[1].as_of_date, desired[1].asset_id, "acct1">>].price,
             desired[1].price)

\* C27: fetch_existing_prices(K) returns a price for exactly the keys of K that
\* the table holds, each with the stored price, and nothing for any other key;
\* with no keys it returns the empty mapping and sends no query, so that no
\* query of it can fail.
C27_ExistingIsIntersection ==
    /\ pc = "read" =>
          /\ DOMAIN existing =
                {k \in AllKeys :
                    /\ store0[k].present
                    /\ \E i \in 1..Len(desired) :
                          <<desired[i].as_of_date, desired[i].asset_id,
                            desired[i].account_id>> = k}
          /\ \A k \in DOMAIN existing : existing[k] = store0[k].price
    /\ desired = <<>> => raised_by # "read"

\* The lookup returned for keys of which the table holds one and lacks another,
\* while the table holds a row outside the keys.
C27_Witness ==
    /\ pc = "read" /\ Len(desired) = 2
    /\ store0[<<desired[1].as_of_date, desired[1].asset_id, "acct1">>].present
    /\ ~store0[<<desired[2].as_of_date, desired[2].asset_id, "acct1">>].present
    /\ \E k \in AllKeys : store0[k].present /\ k \notin DOMAIN existing

\* C28: to_insert holds the rows of desired classified INSERT, in the order
\* of desired, and to_update those classified UPDATE, in the order of desired,
\* each with the stored price.
C28_PlanKeepsInputOrder ==
    PlanReady =>
        LET key(r) == <<r.as_of_date, r.asset_id, r.account_id>>
            is_insert(r) == key(r) \notin DOMAIN existing
            is_update(r) == /\ key(r) \in DOMAIN existing
                            /\ ~DecEq(existing[key(r)], r.price)
            updates == SelectSeq(desired, is_update)
        IN /\ plan.to_insert = SelectSeq(desired, is_insert)
           /\ Len(plan.to_update) = Len(updates)
           /\ \A i \in 1..Len(updates) :
                 /\ plan.to_update[i][1] = updates[i]
                 /\ plan.to_update[i][2] = existing[key(updates[i])]

\* The plan holds two different rows to insert.
C28_Witness ==
    /\ PlanReady
    /\ Len(plan.to_insert) = 2
    /\ plan.to_insert[1] # plan.to_insert[2]

\* The text piece occurs in the text path.
path_holds(path, piece) ==
    \E i \in 1..(Len(path) - Len(piece) + 1) :
        SubSeq(path, i, i + Len(piece) - 1) = piece

\* C29: the params of a provider request hold the start and end dates exactly
\* when both are configured, and the lookback (outputsize 30, period 1mo)
\* exactly when they are not, never both and never neither; the cache path of
\* the asset holds the same form with the same values.
C29_OneWindowForm ==
    fpc = "fetching" =>
        LET yahoo == program = "yahoo_finance/fetch_tickers.py"
            skey == IF yahoo THEN "start" ELSE "start_date"
            ekey == IF yahoo THEN "end" ELSE "end_date"
            lkey == IF yahoo THEN "period" ELSE "outputsize"
            lval == IF yahoo THEN <<"1mo">> ELSE <<"30">>
            lseg == IF yahoo THEN <<"_", "_", "period", "-">>
                    ELSE <<"_", "_", "output", "_", "size", "-">>
            sseg == <<"_", "_", "start", "-">>
            eseg == <<"_", "_", "end", "-">>
            explicit == skey \in DOMAIN params /\ ekey \in DOMAIN params
            lookback == lkey \in DOMAIN params
            configured == envs.start_date # None /\ envs.end_date # None
        IN /\ explicit <=> configured
           /\ lookback <=> ~configured
           /\ skey \in DOMAIN params <=> ekey \in DOMAIN params
           /\ explicit =>
                 /\ params[skey] = isoformat(envs.start_date)
                 /\ params[ekey] = isoformat(envs.end_date)
                 /\ path_holds(cache_path, sseg \o params[skey])
                 /\ path_holds(cache_path, eseg \o params[ekey])
                 /\ ~path_holds(cache_path, lseg)
           /\ lookback =>
                 /\ params[lkey] = lval
                 /\ path_holds(cache_path, lseg \o params[lkey])
                 /\ ~path_holds(cache_path, sseg)
                 /\ ~path_holds(cache_path, eseg)

\* A request with both dates configured, the start other than the end: its
\* params hold the dates and no lookback.
C29_Witness ==
    /\ fpc = "fetching"
    /\ envs.start_date # None /\ envs.end_date # None
    /\ envs.start_date # envs.end_date
    /\ DOMAIN params \cap {"start", "start_date"} # {}
    /\ DOMAIN params \cap {"period", "outputsize"} = {}

\* C30: the table validate_and_load_csv returns holds no two rows with the
\* same symbol and date, and the row it holds for a pair is the last of the
\* file's rows with that pair in (symbol, date) sort order, which keeps the
\* file's order among equal pairs.
C30_LoaderDeduplicates ==
    "rows" \in DOMAIN loaded =>
        LET rows == loaded.rows
            read == typed_rows(raw_csv)
            same_pair(a, b) == /\ astype_str(a.symbol) = astype_str(b.symbol)
                               /\ a.as_of_date = b.as_of_date
        IN /\ \A i, j \in 1..Len(rows) : i # j => ~same_pair(rows[i], rows[j])
           /\ \A i \in 1..Len(rows) :
                 \E n \in 1..Len(read) :
                    /\ same_pair(read[n], rows[i])
                    /\ read[n].price = rows[i].price
                    /\ \A m \in (n + 1)..Len(read) : ~same_pair(read[m], rows[i])
           /\ \A n \in 1..Len(read) :
                 \E i \in 1..Len(rows) : same_pair(read[n], rows[i])

\* C34: a step of a fetch run changes a cache file only when the retry loop
\* returned an answer with usable values for the asset the loop is at, and then
\* it changes that asset's file alone, to the normalized table; an asset that is
\* skipped (retries exhausted, empty payload, no rows after normalize) has
\* the cache file the loop found.
C34_CacheWrittenOnlyOnData ==
    /\ [](fpc = "skipped" =>
            /\ cache_file = cache_before
            /\ cache_dir[td_assets[asset]] = cache_before)
    /\ [][\A s \in DOMAIN cache_dir :
            cache_dir'[s] # cache_dir[s] =>
                /\ fpc = "fetching" /\ rpc = "returned"
                /\ s = td_assets[asset]
                /\ retry_result # None
                /\ retry_result.payload = "values"
                /\ cache_dir'[s] = File(0, FetchedTable(s))]_vars

\* The second asset is skipped after its retries ran out, over a stale cache
\* file, the first asset's file having been written by this run.
C34_Witness ==
    /\ fpc = "skipped" /\ asset = 2
    /\ retry_result = None /\ Len(fn_calls) = MAX_RETRIES
    /\ cache_before.exists /\ cache_file = cache_before
    /\ cache_dir["S1"] = File(0, FetchedTable("S1"))

\* C31: after a kill, every file of the cache directory that passes the
\* freshness check holds a whole table, the one an earlier run left or the one
\* this run fetched; a later run that reads a fresh file gets a whole table.
C31_KillLeavesWholeCacheFiles ==
    /\ fpc = "killed" =>
          \A s \in DOMAIN cache_dir :
              is_cache_fresh(cache_dir[s]) =>
                  cache_dir[s].table \in {CachedTable(s), FetchedTable(s)}
    /\ fpc = "later_cached" =>
          all_rows[1] \in {CachedTable(td_assets[asset]),
                           FetchedTable(td_assets[asset])}
    /\ fpc # "later_crashed"

\* The least wait a slept entry stands for, and the bound of its waits:
\* random.uniform(0.0, 1.0) is 0.0 + 1.0 * random.random(), at least 0 and
\* below 1, so that the bound is reached only without the jitter.
wait_min(w) == w.seconds

wait_bound(w) == IF w.jitter THEN w.seconds + 1 ELSE w.seconds

\* Every wait w stands for is below every wait v stands for.
wait_below(w, v) ==
    IF w.jitter THEN wait_bound(w) <= wait_min(v) ELSE wait_bound(w) < wait_min(v)

\* C32: in retry_with_backoff a sleep follows every failed attempt, the last
\* one included; the k-th sleep is of 2^(k-1) seconds (1, 2, 4, 8), plus a
\* random amount of at least 0 and below 1 second exactly when jitter is on;
\* the waits increase strictly; None is returned after four failed attempts
\* and four sleeps.
C32_BackoffWaits ==
    rpc # "idle" =>
        LET failed == {k \in 1..Len(fn_calls) :
                          fn_calls[k] \in {"exception", "error_payload"}}
        IN /\ Len(slept) = Cardinality(failed)
           /\ failed = 1..Len(slept)
           /\ Len(slept) <= 4
           /\ \A k \in 1..Len(slept) :
                 /\ slept[k].seconds = <<1, 2, 4, 8>>[k]
                 /\ slept[k].jitter = jitter
           /\ \A k \in 1..(Len(slept) - 1) : wait_below(slept[k], slept[k + 1])
           /\ (rpc \in {"exhausted", "returned"} /\ retry_result = None) =>
                 Len(slept) = 4 /\ Len(fn_calls) = 4

\* The loop returned None after four failed attempts with the jitter on.
C32_Witness ==
    /\ rpc = "returned" /\ retry_result = None /\ jitter
    /\ Len(slept) = 4 /\ slept[4].seconds = 8 /\ slept[4].jitter

\* C33: in every summary record a sync run appends to its log, inserted +
\* updated + unchanged is csv_rows, and existing_matched is updated + unchanged.
C33_SummaryCountsAgree ==
    \A i \in 1..Len(Appended) :
        Appended[i].action = "summary" =>
            /\ Appended[i].inserted + Appended[i].updated + Appended[i].unchanged
                  = Appended[i].csv_rows
            /\ Appended[i].existing_matched
                  = Appended[i].updated + Appended[i].unchanged

====
